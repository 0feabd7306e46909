---------------------------- MODULE ScheduleEdits ----------------------------
(***************************************************************************)
(* The list of automatic tasks of one account: the handlers                *)
(* handleAutoTasksPut and handleAutoTaskToggle of internal/web/accounts.go *)
(* over DrawSchedules and SetDrawSchedules of internal/state/schedules.go. *)
(*                                                                         *)
(* Both writes replace the whole list.  A switch reads the list in one     *)
(* critical section of the store and writes it back in another one; the    *)
(* list a page sends is whatever the page had loaded and edited.           *)
(*                                                                         *)
(* An entry is its ID and whether it is on; times and types are left out.  *)
(* The order of the list is that of the times and IDs: it is a function of *)
(* the entries.                                                            *)
(***************************************************************************)
EXTENDS Naturals, FiniteSets

CONSTANTS
    Editors,     \* goroutines that serve a request
    TaskIDs,     \* IDs of entries
    MaxTasks     \* maxDrawSchedulesPerAccount

ASSUME EditAssumption == MaxTasks \in Nat

VARIABLES
    tasks,       \* data.DrawSchedules[account]: on or off, for the IDs listed
    draft,       \* the list each switch is about to write, and the ID it is for
    written,     \* history: what the last write that was meant for an ID said
    raced,       \* history: switches that another write has overtaken
    shaken       \* history: IDs changed by such a switch of another entry

taskVars == <<tasks, draft, written, raced, shaken>>

Lists == UNION {[S -> BOOLEAN] : S \in SUBSET TaskIDs}
NoDraft == [id |-> "none", list |-> [i \in {} |-> FALSE]]
Of(list, i) == IF i \in DOMAIN list THEN {list[i]} ELSE {}

\* The list there is at the beginning was written by somebody.
EditInit ==
    /\ tasks \in {list \in Lists : Cardinality(DOMAIN list) <= MaxTasks}
    /\ draft = [e \in Editors |-> NoDraft]
    /\ written = [i \in TaskIDs |-> Of(tasks, i)]
    /\ raced = {} /\ shaken = {}

------------------------------------------------------------------------------
Switching == {e \in Editors : draft[e] # NoDraft}

\* SetDrawSchedules, once the list is valid and saved.
SetDrawSchedules(e, list) ==
    /\ Cardinality(DOMAIN list) <= MaxTasks
    /\ tasks' = list
    /\ raced' = (raced \union Switching) \ {e}
    /\ draft' = [draft EXCEPT ![e] = NoDraft]

\* handleAutoTasksPut: the list of the request is the whole list.
PutTasks(e) ==
    /\ draft[e] = NoDraft
    /\ \E list \in Lists : SetDrawSchedules(e, list)
    /\ written' = [i \in TaskIDs |-> Of(tasks', i)]
    /\ shaken' = {}

\* An invalid list, one that is too long, or a write that failed: the store
\* keeps what it had.
PutRefused(e) ==
    /\ draft[e] = NoDraft
    /\ UNCHANGED taskVars

\* Mutant of ReadTasks: the list of an earlier request is used.
ReadTasksEarlier(e) ==
    /\ draft[e] = NoDraft
    /\ \E i \in TaskIDs, on \in BOOLEAN, list \in Lists :
        /\ i \in DOMAIN list
        /\ draft' = [draft EXCEPT ![e] = [id |-> i, list |-> [list EXCEPT ![i] = on]]]
    /\ UNCHANGED <<tasks, written, raced, shaken>>

\* handleAutoTaskToggle up to SetDrawSchedules: the entry is found and changed
\* in a copy of the list.
ReadTasks(e) ==
    /\ draft[e] = NoDraft
    /\ \E i \in DOMAIN tasks, on \in BOOLEAN :
        draft' = [draft EXCEPT ![e] = [id |-> i, list |-> [tasks EXCEPT ![i] = on]]]
    /\ UNCHANGED <<tasks, written, raced, shaken>>

\* "The automatic task does not exist".
TaskMissing(e) ==
    /\ draft[e] = NoDraft
    /\ DOMAIN tasks # TaskIDs
    /\ UNCHANGED taskVars

\* The copy becomes the list.
WriteTasks(e) ==
    LET d == draft[e]
    IN  /\ d # NoDraft
        /\ SetDrawSchedules(e, d.list)
        /\ written' = [written EXCEPT ![d.id] = {d.list[d.id]}]
        /\ shaken' = IF e \in raced
                     THEN (shaken \union {i \in TaskIDs : Of(d.list, i) # Of(tasks, i)}) \ {d.id}
                     ELSE shaken \ {d.id}

\* persistLocked failed, and the previous list is put back.
WriteFails(e) ==
    /\ draft[e] # NoDraft
    /\ draft' = [draft EXCEPT ![e] = NoDraft]
    /\ raced' = raced \ {e}
    /\ UNCHANGED <<tasks, written, shaken>>

\* The process ends: the list is on disk.
EditsLost ==
    /\ draft' = [e \in Editors |-> NoDraft]
    /\ raced' = {}
    /\ UNCHANGED <<tasks, written, shaken>>

PutStep(e) == PutTasks(e) \/ PutRefused(e)
SwitchStep(e) == ReadTasks(e) \/ TaskMissing(e) \/ WriteTasks(e) \/ WriteFails(e)

------------------------------------------------------------------------------
EditTypeOK ==
    /\ tasks \in Lists
    /\ Cardinality(DOMAIN tasks) <= MaxTasks
    /\ draft \in [Editors -> [id : TaskIDs \union {"none"}, list : Lists]]
    /\ written \in [TaskIDs -> SUBSET BOOLEAN]
    /\ raced \subseteq Switching
    /\ shaken \subseteq TaskIDs

\* Unless another write has overtaken it, a switch is about to write the list
\* there is, with its entry changed.
DraftsAreCurrent ==
    \A e \in Switching :
        /\ draft[e].id \in DOMAIN draft[e].list
        /\ e \in raced \/ \A i \in TaskIDs \ {draft[e].id} :
               Of(draft[e].list, i) = Of(tasks, i)

EditInv == EditTypeOK /\ DraftsAreCurrent

\* An entry is as the last request that was meant for it has left it, across
\* requests that fail and restarts, unless a switch of another entry was
\* overtaken by a write and put back the list it had read.
EditsSurvive ==
    \A i \in TaskIDs : Of(tasks, i) = written[i] \/ i \in shaken

\* 2026-08-30-star-amount-auto-tasks-performance-design.md:52: a switch changes
\* a single task.
SwitchChangesOneTask ==
    [][\A e \in Editors :
          draft[e] # NoDraft /\ draft'[e] = NoDraft /\ tasks' # tasks =>
              \A i \in TaskIDs \ {draft[e].id} : Of(tasks', i) = Of(tasks, i)]_taskVars
==============================================================================
