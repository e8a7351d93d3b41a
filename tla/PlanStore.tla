----------------------------- MODULE PlanStore ------------------------------
(***************************************************************************)
(* The plan directory of one Machine Profile and the processes or worker   *)
(* threads that record steps in it: DeploymentWorkflow::record_step over   *)
(* DeploymentStore::save_plan, with every file operation of                *)
(* write_bytes_once a step of its own, I/O errors and crashes between any  *)
(* two of them.                                                            *)
(*                                                                         *)
(*   crates/nvstraps-deploy/src/workflow.rs  record_step                   *)
(*   crates/nvstraps-deploy/src/store.rs     load_plan, save_plan,         *)
(*                                           write_bytes_once              *)
(*                                                                         *)
(* A plan is the sequence of the evidence of its completed steps.  Nothing *)
(* in the application calls invalidate_from, so its revision is the length *)
(* of that sequence, and the first step without evidence is the ready one. *)
(*                                                                         *)
(* The temporary file is not state: its name is unique to the process and  *)
(* the call, and load_plan skips what does not end in .json.               *)
(***************************************************************************)
EXTENDS Naturals, Sequences, FiniteSets

CONSTANTS Clients,    \* concurrent callers of the store
          Evidence,   \* the values a step may be completed with
          StepCount,  \* the number of steps of the plan
          NoPlan

Plans == {p \in Seq(Evidence) : Len(p) <= StepCount}

ASSUME StoreAssumption ==
    /\ StepCount \in Nat
    /\ NoPlan \notin Seq(Evidence)

VARIABLES
    files,    \* the plan file of each revision, or NoPlan
    at,       \* what each client is doing
    plan,     \* DeploymentWorkflow::plan of each client
    next      \* the clone of it that record_step is saving

vars == <<files, at, plan, next>>

Revisions == 0 .. StepCount

Phases == {"idle", "open", "check", "temp", "rename"}

TypeOK ==
    /\ files \in [Revisions -> Plans \cup {NoPlan}]
    /\ at \in [Clients -> Phases]
    /\ plan \in [Clients -> Plans \cup {NoPlan}]
    /\ next \in [Clients -> Plans \cup {NoPlan}]

Init ==
    /\ files = [r \in Revisions |-> NoPlan]
    /\ at = [c \in Clients |-> "idle"]
    /\ plan = [c \in Clients |-> NoPlan]
    /\ next = [c \in Clients |-> NoPlan]

Stored == {r \in Revisions : files[r] # NoPlan}

\* load_plan: the file with the highest revision.
Latest ==
    IF Stored = {} THEN NoPlan
    ELSE files[CHOOSE r \in Stored : \A q \in Stored : q <= r]

-----------------------------------------------------------------------------

Goto(c, phase) == at' = [at EXCEPT ![c] = phase]

\* A command loads the plan.  Without one, provision_profile saves revision 0.
Load(c) ==
    /\ at[c] = "idle"
    /\ plan' = [plan EXCEPT ![c] = Latest]
    /\ \/ /\ Latest # NoPlan
          /\ Goto(c, "open")
          /\ UNCHANGED next
       \/ /\ Latest = NoPlan
          /\ next' = [next EXCEPT ![c] = <<>>]
          /\ Goto(c, "check")
    /\ UNCHANGED files

\* record_step: complete the active step in a clone of the plan.
Record(c) ==
    /\ at[c] = "open"
    /\ Len(plan[c]) < StepCount
    /\ \E value \in Evidence : next' = [next EXCEPT ![c] = Append(plan[c], value)]
    /\ Goto(c, "check")
    /\ UNCHANGED <<files, plan>>

\* The save returned Ok and the workflow adopts the plan it saved.
Adopt(c) ==
    /\ plan' = [plan EXCEPT ![c] = next[c]]
    /\ Goto(c, "open")
    /\ UNCHANGED next

\* The save returned an error and the command with it.
Fail(c) ==
    /\ plan' = [plan EXCEPT ![c] = NoPlan]
    /\ next' = [next EXCEPT ![c] = NoPlan]
    /\ Goto(c, "idle")

\* The revision being saved.
Target(c) == Len(next[c])

\* Faulty variant: an existing revision is taken for the one being saved.
ensure_same_file_Exists(c) == Adopt(c)

\* ensure_same_file: the revision exists; it is the very plan or a conflict.
ensure_same_file(c) ==
    IF files[Target(c)] = next[c] THEN Adopt(c) ELSE Fail(c)

\* write_bytes_once: path.exists().
CheckExists(c) ==
    /\ at[c] = "check"
    /\ \/ /\ files[Target(c)] # NoPlan
          /\ ensure_same_file(c)
       \/ /\ files[Target(c)] = NoPlan
          /\ Goto(c, "temp")
          /\ UNCHANGED <<plan, next>>
    /\ UNCHANGED files

\* Create, write and sync the temporary file.
WriteTemporary(c) ==
    /\ at[c] = "temp"
    /\ \/ /\ Goto(c, "rename")
          /\ UNCHANGED <<plan, next>>
       \/ Fail(c)
    /\ UNCHANGED files

\* fs::rename replaces a file that appeared in the meantime; when it fails,
\* an existing file is compared and a missing one is an I/O error.
Rename(c) ==
    /\ at[c] = "rename"
    /\ \/ /\ files' = [files EXCEPT ![Target(c)] = next[c]]
          /\ Adopt(c)
       \/ /\ IF files[Target(c)] # NoPlan THEN ensure_same_file(c) ELSE Fail(c)
          /\ UNCHANGED files

\* The command returned, or its process died.
Stop(c) ==
    /\ at[c] # "idle"
    /\ Fail(c)
    /\ UNCHANGED files

Next ==
    \E c \in Clients :
        \/ Load(c) \/ Record(c) \/ CheckExists(c)
        \/ WriteTemporary(c) \/ Rename(c) \/ Stop(c)

Spec == Init /\ [][Next]_vars

\* The window of write_bytes_once between its check and its rename.
Saving == {c \in Clients : at[c] \in {"temp", "rename"}}

NoOverlap == \A c, d \in Saving : c = d

\* The store of an application whose saves do not overlap, although its
\* commands do.
SerialSpec == Init /\ [][Next /\ NoOverlap']_vars

-----------------------------------------------------------------------------

\* Revisions are stored without gaps and each holds as many completed steps
\* as its number says, whatever the clients do and wherever they die: the
\* latest plan is never reached by skipping a step.
NoGaps ==
    \A r \in Stored :
        /\ Len(files[r]) = r
        /\ \A q \in 0 .. r : q \in Stored

\* A plan that was stored once is there for good, and never goes back to an
\* earlier step.
LatestNeverRegresses ==
    [][Stored # {} => Stored' # {} /\ Len(Latest') >= Len(Latest)]_vars

\* A stored revision never changes: "its revisions are append-only".  With
\* saves that do not overlap, the second of two commands that complete the
\* same step fails with a conflict.
AppendOnly ==
    [][\A r \in Revisions : files[r] # NoPlan => files'[r] = files[r]]_vars

\* The plan a command works on is the one in the store, byte for byte.
ObservedIsExact ==
    \A c \in Clients : at[c] = "open" => files[Len(plan[c])] = plan[c]

\* The latest plan is an append-only history.
History == INSTANCE PlanHistory WITH plan <- Latest

ImplementsHistory == History!Spec

=============================================================================
