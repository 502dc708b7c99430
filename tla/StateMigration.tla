--------------------------- MODULE StateMigration ---------------------------
(***************************************************************************)
(* run_tofu_command of scripts/haac.py: before a plan or an apply, the     *)
(* state entry of the LXC template that an older provider kept under a     *)
(* legacy address is imported under the new address and then removed from  *)
(* the old one.  Each tofu invocation is one step, and the process may be  *)
(* killed between any two; a state that cannot be listed counts as empty.  *)
(* OpenTofu itself is external: an apply destroys what the state tracks    *)
(* under an address the configuration no longer has, and creates what it   *)
(* does not track under an address the configuration has.                  *)
(***************************************************************************)
EXTENDS Naturals

CONSTANT MaxTofuFaults

ASSUME TofuAssumption == MaxTofuFaults \in Nat

VARIABLES
  tracked,     \* addresses in the state: "legacy", "new"
  image,       \* does the template exist on the host
  tofu,        \* the process
  tofuFaults

tofuVars == <<tracked, image, tofu, tofuFaults>>

TofuFault == tofuFaults < MaxTofuFaults /\ tofuFaults' = tofuFaults + 1

TofuAt(pc) == tofu.pc = pc
NotRunning(v) == [pc |-> "idle", known |-> {}, verdict |-> v]
TofuEnds(v) == tofu' = NotRunning(v)

RunTofu ==
  /\ TofuAt("idle")
  /\ tofu' = [pc |-> "list", known |-> {}, verdict |-> ""]
  /\ UNCHANGED <<tracked, image, tofuFaults>>

OnlyRemoves == IF "legacy" \in tracked THEN "remove" ELSE "apply"     \* mutant: nothing is imported
Migration == IF "legacy" \notin tracked THEN "apply"
             ELSE IF "new" \in tracked THEN "remove" ELSE "import"

\* tofu_state_addresses
ListState ==
  /\ TofuAt("list")
  /\ \/ tofu' = [tofu EXCEPT !.known = tracked,
                   !.pc = Migration]
        /\ UNCHANGED tofuFaults
     \/ TofuFault /\ tofu' = [tofu EXCEPT !.known = {}, !.pc = "apply"]
  /\ UNCHANGED <<tracked, image>>

\* tofu import, with the identifier that tofu state show gave.
ImportNew ==
  /\ TofuAt("import")
  /\ \/ tracked' = tracked \cup {"new"} /\ UNCHANGED tofuFaults
        /\ tofu' = [tofu EXCEPT !.pc = "remove"]
     \/ TofuFault /\ TofuEnds("failed") /\ tracked' \in {tracked, tracked \cup {"new"}}
  /\ UNCHANGED image

RemoveLegacy ==
  /\ TofuAt("remove")
  /\ \/ tracked' = tracked \ {"legacy"} /\ UNCHANGED tofuFaults
        /\ tofu' = [tofu EXCEPT !.pc = "apply"]
     \/ TofuFault /\ TofuEnds("failed") /\ tracked' \in {tracked, tracked \ {"legacy"}}
  /\ UNCHANGED image

\* plan changes nothing.  apply makes the host what the configuration says;
\* destroying what the legacy address tracks may come last.
PlanTofu == TofuAt("apply") /\ TofuEnds("planned") /\ UNCHANGED <<tracked, image, tofuFaults>>

ApplyTofu ==
  /\ TofuAt("apply")
  /\ \/ /\ image' \in IF "legacy" \in tracked THEN BOOLEAN ELSE {TRUE}
        /\ tracked' = {"new"}
        /\ TofuEnds("applied")
        /\ UNCHANGED tofuFaults
     \/ TofuFault /\ TofuEnds("failed") /\ UNCHANGED <<tracked, image>>

TofuKilled ==
  /\ ~TofuAt("idle") /\ TofuFault
  /\ TofuEnds("failed")
  /\ UNCHANGED <<tracked, image>>

TofuInit ==
  /\ tracked \in {{}, {"legacy"}, {"new"}, {"legacy", "new"}}
  /\ image = (tracked # {})
  /\ tofu = NotRunning("new")
  /\ tofuFaults = 0

TofuStep == RunTofu \/ ListState \/ ImportNew \/ RemoveLegacy \/ PlanTofu \/ ApplyTofu
TofuNext == TofuStep \/ TofuKilled

TofuSpec == TofuInit /\ [][TofuNext]_tofuVars
TofuFairness == WF_tofuVars(TofuStep)

-----------------------------------------------------------------------------
(* Properties *)

TofuTypeOK ==
  /\ tracked \subseteq {"legacy", "new"} /\ image \in BOOLEAN
  /\ tofu \in [pc : {"idle", "list", "import", "remove", "apply"},
               known : SUBSET {"legacy", "new"},
               verdict : {"new", "", "planned", "applied", "failed"}]
  /\ tofuFaults \in 0..MaxTofuFaults

\* The template that containers are created from survives the migration and
\* the apply after it, wherever an earlier migration was cut off, and at no
\* moment does the state lose track of it, unless the process could not list
\* the state and went on as if it were empty.
ImageSurvives ==
  [][(image => image' /\ tracked' # {})
       \/ (tofu.known = {} /\ "legacy" \in tracked)]_<<tracked, image>>
=============================================================================
