--------------------------- MODULE MCDeviceWatcher ---------------------------
(* Small instances of DeviceWatcher for TLC. *)
EXTENDS DeviceWatcher

Event(type, length) == [event |-> type, namelen |-> length]

\* One device; and two with an event between that is no device, which the mask
\* does not ask for and the parser skips.
MCMessages ==
  {<<Event("added", 2)>>,
   <<Event("existing", 1), Event("other", 0), Event("existing", 1)>>}
=============================================================================
