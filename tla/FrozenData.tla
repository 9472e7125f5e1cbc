----------------------------- MODULE FrozenData -----------------------------
(***************************************************************************)
(* The run every reset seeds (frozen_data.py): six workers, four shifts,   *)
(* five messages and the intents they are known to parse to.  Hours count  *)
(* from 24 August, 00:00.                                                  *)
(***************************************************************************)
EXTENDS Models, TLC

CONSTANTS
    Maya, Liam, Sofia, Noah, Emma, Lucas,       \* W-001 .. W-006
    Shift26E, Shift27M, Shift28M, Shift28E,
    EVT1, EVT2, EVT3, EVT4, AMB1                \* EVT-001 .. EVT-004, AMB-001

FrozenWorkers == {Maya, Liam, Sofia, Noah, Emma, Lucas}
FrozenShifts  == {Shift26E, Shift27M, Shift28M, Shift28E}

Hour(day, hour) == 24 * (day - 24) + hour

Morning(day) == <<Hour(day, 6), Hour(day, 14)>>
Evening(day) == <<Hour(day, 17), Hour(day, 23)>>

FrozenAvailability ==
    Maya  :> {Morning(24), Morning(25), Morning(26), Evening(26)} @@
    Liam  :> {Evening(26), Evening(27), Evening(28)} @@
    Sofia :> {Evening(25), Evening(26), Evening(27)} @@
    Noah  :> {Morning(27), Morning(28)} @@
    Emma  :> {Morning(24), Morning(27), Morning(28)} @@
    Lucas :> {Evening(25), Evening(28)}

FrozenStartAt ==
    Shift26E :> Hour(26, 18) @@ Shift27M :> Hour(27, 8) @@
    Shift28M :> Hour(28, 8)  @@ Shift28E :> Hour(28, 18)

FrozenEndAt == [s \in FrozenShifts |-> FrozenStartAt[s] + 4]

FrozenOwner ==
    Shift26E :> Maya @@ Shift27M :> Noah @@ Shift28M :> Emma @@ Shift28E :> Lucas

TransferIntent(e, from, to, s, dependency, present) ==
    [source |-> e, type |-> "TRANSFER_SHIFT", from |-> from, to |-> to,
     shift |-> s, target |-> None, dependency |-> dependency,
     confirmation |-> IF present THEN "PRESENT" ELSE "ABSENT",
     by |-> IF present THEN to ELSE None,
     decision |-> "NOT_APPLICABLE", ambiguous |-> FALSE]

AcceptIntent(e, target, s, by) ==
    [source |-> e, type |-> "CONFIRM_REQUEST", from |-> None, to |-> None,
     shift |-> s, target |-> target, dependency |-> None,
     confirmation |-> "PRESENT", by |-> by,
     decision |-> "ACCEPT", ambiguous |-> FALSE]

UnknownIntent(e) ==
    [source |-> e, type |-> "UNKNOWN", from |-> None, to |-> None,
     shift |-> None, target |-> None, dependency |-> None,
     confirmation |-> "ABSENT", by |-> None,
     decision |-> "NOT_APPLICABLE", ambiguous |-> TRUE]

\* intent_for
FrozenIntent(e) ==
    CASE e = EVT1 -> TransferIntent(e, Maya, Liam, Shift26E, None, TRUE)
      [] e = EVT2 -> TransferIntent(e, Liam, Sofia, Shift26E, EVT1, TRUE)
      [] e = EVT3 -> TransferIntent(e, Noah, Emma, Shift27M, None, FALSE)
      [] e = EVT4 -> AcceptIntent(e, EVT3, Shift27M, Emma)
      [] e = AMB1 -> UnknownIntent(e)

FrozenParses == [e \in Events |-> {FrozenIntent(e)}]

=============================================================================
