------------------------------ MODULE WebJobs ------------------------------
(***************************************************************************)
(* The web app's settings page and its background jobs (web/app.py,        *)
(* settings_store.py, factory.py).                                         *)
(*                                                                         *)
(* Jobs are daemon threads.  A review reads the app's settings when it     *)
(* runs, not when its form was checked; it books its spend, writes its     *)
(* record and only then sets the link its page redirects to.  A lab run or *)
(* an import writes one file named after the second in which it ended.     *)
(* The settings page rewrites a file and then replaces the settings in     *)
(* memory; after a restart the file is laid over the environment again,    *)
(* and a file that cannot be read or does not parse counts as empty.       *)
(*                                                                         *)
(* What a review may spend and how the ledger is written is SpendLedger;   *)
(* here booking is one step.                                               *)
(***************************************************************************)
EXTENDS Naturals, FiniteSets

CONSTANTS
    Reviews, Imports,    \* the jobs: paid reviews; lab runs and cloud imports
    Models, KindOf,      \* the choices of the settings page and their llm_provider
    Env,                 \* the settings of the environment: a model and a total
    Totals,              \* totals that are typed into the page
    Unset,               \* a field the page does not hold
    MaxSaves, MaxCrashes, MaxFaults, MaxSeconds

Jobs == Reviews \cup Imports

ASSUME SettingsAssumption ==
    /\ Env.model \in Models /\ Unset \notin Models \cup Totals \cup {Env.total}
    /\ Reviews \cap Imports = {} /\ Reviews \cap Nat = {}
    /\ Unset \notin Reviews \cup Nat /\ MaxSeconds \in Nat

VARIABLES
    stored,     \* llm-settings.json: a value or Unset for each field, or Torn
    settings,   \* the settings in force in the process
    saving,     \* the save under way: how far it is and its values
    pc,         \* where each job is
    shown,      \* the model in force when the page with the job's form was made
    built,      \* the provider the job works with: its kind and its model
    disk,       \* for each file name the jobs whose text is in that file
    name,       \* the file each job writes
    written,    \* the jobs whose write ended
    charged,    \* the reviews in the ledger
    second,
    moved,      \* history: whether the model in force changed after a job's page or form check
    meant       \* history: what the page was last given, which of its fields the
                \* file has lost and which are gone from memory, and the bounds

vars == <<stored, settings, saving, pc, shown, built, disk, name, written, charged, second, moved, meant>>
files == <<disk, name, written, charged>>
page  == <<stored, settings, saving, meant>>

Torn    == [model |-> Unset, total |-> Unset, torn |-> TRUE]
Values(m, t) == [model |-> m, total |-> t, torn |-> FALSE]
Idle    == [step |-> "idle", values |-> Values(Unset, Unset), fields |-> {}, lost |-> {}]
Nothing == [kind |-> Unset, model |-> Unset]
Fields  == {"model", "total"}
Ended   == {"done", "failed", "killed"}
Names   == Reviews \cup 0..MaxSeconds

\* An untouched field follows the environment; a damaged file holds nothing.
Apply(values) == [f \in Fields |-> IF values[f] = Unset THEN Env[f] ELSE values[f]]

MovedTo(new) ==
    [j \in Jobs |-> IF new.model = settings.model THEN moved[j]
                    ELSE CASE pc[j] = "viewed" -> moved[j] \cup {"page"}
                           [] pc[j] = "posted" -> moved[j] \cup {"page", "form"}
                           [] OTHER -> moved[j]]

Init ==
    /\ stored = Values(Unset, Unset)
    /\ settings = Env
    /\ saving = Idle
    /\ pc = [j \in Jobs |-> "new"]
    /\ shown = [j \in Jobs |-> Unset]
    /\ built = [j \in Jobs |-> Nothing]
    /\ disk = [n \in Names |-> {}]
    /\ name = [j \in Jobs |-> Unset]
    /\ written = {}
    /\ charged = {}
    /\ second = 0
    /\ moved = [j \in Jobs |-> {}]
    /\ meant = [values |-> Values(Unset, Unset), lost |-> {}, gone |-> {},
                saves |-> 0, crashes |-> 0, faults |-> 0]
-----------------------------------------------------------------------------
(* The settings page. *)

Unreadable == [seen |-> Torn, lost |-> Fields, faults |-> 1]

\* load() finds the file as it is, or cannot read it.
Reads == {[seen |-> stored, lost |-> meant.lost, faults |-> 0]}
         \cup IF meant.faults < MaxFaults THEN {Unreadable} ELSE {}

\* save() opens the file, which empties it.
Begin(values, fields, read) ==
    /\ saving = Idle
    /\ meant.saves < MaxSaves
    /\ stored' = Torn
    /\ saving' = [step |-> "open", values |-> values, fields |-> fields,
                  lost |-> read.lost \ fields]
    /\ meant' = [meant EXCEPT !.saves = @ + 1, !.faults = @ + read.faults]
    /\ UNCHANGED <<settings, pc, shown, built, files, second, moved>>

\* Mutant: a preset replaces what was stored.
PresetAlone(m) ==
    \E read \in Reads : Begin(Values(m, Unset), {"model"}, read)

\* A preset is laid over what the file holds.
Preset(m) ==
    \E read \in Reads : Begin(Values(m, read.seen.total), {"model"}, read)

NoRead == [seen |-> Torn, lost |-> {}, faults |-> 0]

\* The form stores its model; a total left blank is not stored.
SaveForm(m, t) == Begin(Values(m, t), Fields, NoRead)

Reset == Begin(Values(Unset, Unset), Fields, NoRead)

\* The file is written ...
Fill ==
    /\ saving.step = "open"
    /\ stored' = saving.values
    /\ saving' = [saving EXCEPT !.step = "filled"]
    /\ meant' = [meant EXCEPT
           !.values = [f \in DOMAIN Torn |->
                           IF f \in saving.fields THEN saving.values[f] ELSE meant.values[f]],
           !.lost = saving.lost]
    /\ UNCHANGED <<settings, pc, shown, built, files, second, moved>>

\* ... or writing it fails, on a full disk say: the request ends with the error,
\* the file stays torn and the settings in memory stay as they were.
SaveFails ==
    /\ saving.step = "open"
    /\ meant.faults < MaxFaults
    /\ saving' = Idle
    /\ meant' = [meant EXCEPT !.lost = Fields, !.faults = @ + 1]
    /\ UNCHANGED <<stored, settings, pc, shown, built, files, second, moved>>

\* ... and then the settings in memory are replaced.
Assign ==
    /\ saving.step = "filled"
    /\ settings' = Apply(saving.values)
    /\ saving' = Idle
    /\ moved' = MovedTo(settings')
    /\ meant' = [meant EXCEPT !.gone = meant.lost]
    /\ UNCHANGED <<stored, pc, shown, built, files, second>>
-----------------------------------------------------------------------------
(* Jobs. *)

\* Someone opens the page that offers the review, with the model in force.
View(j) ==
    /\ j \in Reviews /\ pc[j] = "new"
    /\ shown' = [shown EXCEPT ![j] = settings.model]
    /\ moved' = [moved EXCEPT ![j] = {}]
    /\ pc' = [pc EXCEPT ![j] = "viewed"]
    /\ UNCHANGED <<page, built, files, second>>

\* Mutant: any known provider is taken from the form.
PostUnchecked(j) ==
    /\ pc[j] = "viewed"
    /\ saving = Idle
    /\ pc' = [pc EXCEPT ![j] = "posted"]
    /\ UNCHANGED <<page, shown, built, files, second, moved>>

\* The form names a kind of provider, which must be the one in force; it does
\* not name the model.  A save has no await in it, so no form is read during one.
Post(j) ==
    /\ pc[j] = "viewed"
    /\ saving = Idle
    /\ KindOf[shown[j]] = KindOf[settings.model]
    /\ pc' = [pc EXCEPT ![j] = "posted"]
    /\ UNCHANGED <<page, shown, built, files, second, moved>>

\* A form of another kind is refused; the page is opened again.
Refuse(j) ==
    /\ pc[j] = "viewed"
    /\ saving = Idle
    /\ KindOf[shown[j]] # KindOf[settings.model]
    /\ pc' = [pc EXCEPT ![j] = "new"]
    /\ UNCHANGED <<page, shown, built, files, second, moved>>

\* make_provider in the thread: the form's kind, the model now in force.
Build(j) ==
    /\ pc[j] = "posted"
    /\ built' = [built EXCEPT ![j] = [kind |-> KindOf[shown[j]], model |-> settings.model]]
    /\ pc' = [pc EXCEPT ![j] = "running"]
    /\ UNCHANGED <<page, shown, files, second, moved>>

StartImport(j) ==
    /\ j \in Imports /\ pc[j] = "new"
    /\ pc' = [pc EXCEPT ![j] = "running"]
    /\ UNCHANGED <<page, shown, built, files, second, moved>>

\* Any step of work may raise, writing its file included, which then stays as
\* it is; the exception is kept for the job's page.
Fail(j) ==
    /\ pc[j] \in {"running", "charged", "writing", "wrote"}
    /\ pc' = [pc EXCEPT ![j] = "failed"]
    /\ UNCHANGED <<page, shown, built, files, second, moved>>

\* The run returned: its spend is booked before anything is written.
Charge(j) ==
    /\ j \in Reviews /\ pc[j] = "running"
    /\ charged' = charged \cup {j}
    /\ pc' = [pc EXCEPT ![j] = "charged"]
    /\ UNCHANGED <<page, shown, built, disk, name, written, second, moved>>

\* Opening a file empties it; what others still have to write will be in it too.
Open(j) ==
    /\ pc[j] = (IF j \in Reviews THEN "charged" ELSE "running")
    /\ LET n == IF j \in Reviews THEN j ELSE second
       IN  /\ name' = [name EXCEPT ![j] = n]
           /\ disk' = [disk EXCEPT ![n] = {j} \cup {k \in @ : pc[k] = "writing"}]
    /\ pc' = [pc EXCEPT ![j] = "writing"]
    /\ UNCHANGED <<page, shown, built, written, charged, second, moved>>

\* Mutant: the link is set before the file is closed.
CloseAfterLink(j) ==
    /\ pc[j] = "writing"
    /\ pc' = [pc EXCEPT ![j] = "done"]
    /\ UNCHANGED <<page, shown, built, files, second, moved>>

Close(j) ==
    /\ pc[j] = "writing"
    /\ written' = written \cup {j}
    /\ pc' = [pc EXCEPT ![j] = "wrote"]
    /\ UNCHANGED <<page, shown, built, disk, name, charged, second, moved>>

\* The report is beside the record, and the page of the job redirects.
Link(j) ==
    /\ pc[j] = "wrote"
    /\ pc' = [pc EXCEPT ![j] = "done"]
    /\ UNCHANGED <<page, shown, built, files, second, moved>>
-----------------------------------------------------------------------------
\* The process is killed and started again.  Its threads are gone, and so is
\* the list of jobs; open pages remain, and the settings are read back from the
\* file if it can be read.
Crash ==
    /\ meant.crashes < MaxCrashes
    /\ pc' = [j \in Jobs |-> IF pc[j] \in Ended \cup {"new", "viewed"} THEN pc[j] ELSE "killed"]
    /\ saving' = Idle
    /\ \E read \in Reads :
           LET torn == IF saving.step = "open" THEN Fields ELSE {}
           IN  /\ settings' = Apply(read.seen)
               /\ meant' = [meant EXCEPT !.crashes = @ + 1,
                                         !.faults = @ + read.faults,
                                         !.lost = @ \cup torn,
                                         !.gone = read.lost \cup torn]
    /\ moved' = MovedTo(settings')
    /\ UNCHANGED <<stored, shown, built, files, second>>

Tick ==
    /\ second < MaxSeconds
    /\ second' = second + 1
    /\ UNCHANGED <<page, pc, shown, built, files, moved>>

Next ==
    \/ \E m \in Models : Preset(m) \/ \E t \in Totals \cup {Unset} : SaveForm(m, t)
    \/ Reset \/ Fill \/ SaveFails \/ Assign
    \/ \E j \in Jobs : \/ View(j) \/ Post(j) \/ Refuse(j) \/ Build(j) \/ StartImport(j)
                       \/ Fail(j) \/ Charge(j) \/ Open(j) \/ Close(j) \/ Link(j)
    \/ Crash \/ Tick

Spec == Init /\ [][Next]_vars
-----------------------------------------------------------------------------
\* What the page was given stays in force over further saves and restarts, a
\* blank field following the environment.  Only a mishap undoes it, silently: a
\* crash or a failed write in the middle of a save tears the file, which shows
\* after the next restart or preset; a file that cannot be read counts as empty,
\* and a preset on top of it brings back its own fields alone and makes it
\* permanent.  A field is safe again once it is saved
\* (settings_store.py:91-115, app.py:104, 158-175).
LimitsForgottenOnlyByMishap ==
    saving = Idle =>
        \A f \in Fields :
            settings[f] = IF f \in meant.gone \/ meant.values[f] = Unset
                          THEN Env[f] ELSE meant.values[f]

\* What a review works with, against what its page showed.  The check of the
\* form keeps the kind of provider unless a save falls between the check and the
\* thread's start; the model, and with it the endpoint and the price, may be
\* another as soon as a save or a restart falls between the page and the start, also when the
\* page said that nothing leaves the machine (app.py:438, 446-447).
ModelIsTheOneShown ==
    \A j \in Reviews : built[j] # Nothing =>
        /\ built[j].model # shown[j] => "page" \in moved[j]
        /\ KindOf[built[j].model] # built[j].kind => "form" \in moved[j]

SameName(j) == {k \in Jobs \ {j} : name[k] = name[j]}

\* A link leads to a complete file with the job's own result, for a paid review
\* one that is in the ledger; and no record of a review is on disk, linked or
\* not, whose spend was not booked.  Only files named after a second can hold
\* something else: two jobs that end in one second share one
\* (app.py:461-466, 617-619).
LinksHold ==
    /\ \A j \in Jobs : pc[j] = "done" =>
           \/ disk[name[j]] = {j} /\ j \in written
           \/ j \in Imports /\ SameName(j) # {}
    /\ \A j \in Reviews : disk[j] # {} => j \in charged
=============================================================================
