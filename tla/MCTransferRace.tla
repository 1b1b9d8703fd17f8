--------------------------- MODULE MCTransferRace ---------------------------
(* Concurrent exports from an unlocked vault whose assets were uploaded to *)
(* it, without any fault.                                                  *)
EXTENDS VaultTransfer

SameHash == [a \in Assets |-> 1]
Uploaded == CHOOSE a \in Assets : TRUE

RaceInit ==
  /\ row = [d \in Databases |-> [a \in Assets |-> IF d = "vault" /\ a = Uploaded THEN Fresh ELSE NoRow]]
  /\ known = {Uploaded}
  /\ plain = [a \in Assets |-> "absent"]
  /\ blobRow = [a \in Assets |-> IF a = Uploaded THEN 1 ELSE 0]
  /\ blobs = {<<1, Uploaded>>}
  /\ staged = {}
  /\ transfer = [t \in Transfers |-> IF t = 1 THEN [NoTransfer EXCEPT !.kind = "ingest",
                                                                      !.ids = {Uploaded}]
                                     ELSE NoTransfer]
  /\ created = 1
  /\ session = TRUE
  /\ request = [r \in Requests |-> Idle]

RaceNext == \E r \in Requests : BeginExport(r, {Uploaded}) \/ Proceed(r)

RaceSpec == RaceInit /\ [][RaceNext]_vars
=============================================================================
