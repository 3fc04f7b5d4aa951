---------------------------- MODULE BatchRounds ----------------------------
(***************************************************************************)
(* What the threads of a slave need of sending a batch, and what sending a *)
(* batch does, for one domain: rows are fetched from those that wait, as   *)
(* many as a batch takes, and once they have been sent some of them do not *)
(* wait any more; a batch that fails leaves none of them waiting.  Only a  *)
(* batch after one that failed may come to nothing, so that sending to the *)
(* domain ends.                                                            *)
(***************************************************************************)
EXTENDS Naturals

CONSTANT BatchSize  \* rows a batch takes

VARIABLES waiting,   \* number of rows that wait
          batch,     \* rows of the batch being sent, 0 if none is
          failed,    \* the batch before failed
          restarts   \* how often the slave was started again

BatchRoundsInit == /\ waiting \in Nat
                   /\ batch = 0
                   /\ failed = FALSE
                   /\ restarts = 0

\* A batch is fetched: all rows that wait, or as many as it takes.
Fetch == /\ batch = 0
         /\ waiting > 0
         /\ batch' = IF waiting < BatchSize THEN waiting ELSE BatchSize
         /\ UNCHANGED <<waiting, failed, restarts>>

\* The batch is over, n of its rows do not wait any more.
Over(n, failure) == /\ batch > 0
                    /\ waiting' = waiting - n
                    /\ batch' = 0
                    /\ failed' = failure

Sent == /\ \E n \in 0..batch : (n = 0 => failed) /\ Over(n, FALSE)
        /\ restarts' = restarts

Failed == /\ Over(batch, TRUE)
          /\ restarts' = restarts

\* The slave is started again; a batch it was sending may have come to nothing.
Restart == /\ \/ \E n \in 0..batch : Over(n, FALSE)
              \/ batch = 0 /\ failed' = FALSE /\ UNCHANGED <<waiting, batch>>
           /\ restarts' = restarts + 1

\* The slave leaves the domain between two batches; rows that wait may be failed.
Leave == /\ batch = 0
         /\ waiting' \in {waiting, 0}
         /\ failed' = FALSE
         /\ UNCHANGED <<batch, restarts>>

BatchRoundsNext == Fetch \/ Sent \/ Failed \/ Restart \/ Leave

BatchRoundsVars == <<waiting, batch, failed, restarts>>

BatchRoundsSpec == BatchRoundsInit /\ [][BatchRoundsNext]_BatchRoundsVars
=============================================================================
