----------------------- MODULE MCDeviceAudioForwarder -----------------------
(* Finite instances of DeviceAudioForwarder: its constants are numbers.     *)
EXTENDS DeviceAudioForwarder
=============================================================================
