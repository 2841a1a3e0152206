---------------------------- MODULE MCMockClient ----------------------------
(* Instances of MockClient for TLC. *)
EXTENDS MockClient, TLC

MCDevices == {DeviceID}
MCFrames == Runs \X Kinds
MCSequenceNumbers == 0 .. MaxClock + 1
MCTrimSpace == [p \in {"com.android.settings", "com.example.bank"} |-> p]

=============================================================================
