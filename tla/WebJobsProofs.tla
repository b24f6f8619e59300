--------------------------- MODULE WebJobsProofs ---------------------------
(***************************************************************************)
(* The settings page and the jobs of the web app, for any reviews, imports *)
(* and choices of the page, and any number of saves, crashes and seconds.  *)
(***************************************************************************)
EXTENDS WebJobs, TLAPS

Places == {"new", "viewed", "posted", "running", "charged", "writing", "wrote",
           "done", "failed", "killed"}

Types ==
    /\ pc \in [Jobs -> Places]
    /\ moved \in [Jobs -> SUBSET {"page", "form"}]
    /\ DOMAIN shown = Jobs /\ DOMAIN built = Jobs
    /\ name \in [Jobs -> Names \cup {Unset}]
    /\ disk \in [Names -> SUBSET Jobs]
    /\ second \in 0..MaxSeconds
    /\ saving.step \in {"idle", "open", "filled"}
-----------------------------------------------------------------------------
(* The settings. *)

\* values holds for each field but those in fields what the page was last
\* given, or nothing for what is lost.
Holds(values, fields, lost) ==
    \A f \in Fields \ fields :
        values[f] = IF f \in lost THEN Unset ELSE meant.values[f]

\* Why only a mishap forgets: outside the moment in which it is open, the file
\* holds what the page was given but for what it has lost, and the settings in
\* force are what it held when they were last read from it.
SettingsInv ==
    /\ saving.step \in {"idle", "open", "filled"}
    /\ saving.step = "open" =>
           /\ stored = Torn /\ ~saving.values.torn
           /\ saving.lost \cap saving.fields = {}
           /\ Holds(saving.values, saving.fields, saving.lost)
    /\ saving.step = "filled" => saving.values = stored
    /\ saving.step # "open" => Holds(stored, {}, meant.lost)
    /\ saving.step # "filled" =>
           \A f \in Fields :
               settings[f] = IF f \in meant.gone \/ meant.values[f] = Unset
                             THEN Env[f] ELSE meant.values[f]

SettingsVars == <<stored, settings, saving, meant>>

LEMMA SettingsInit == Init => SettingsInv
BY DEF Init, SettingsInv, Idle, Values, Holds, Fields, Torn

\* What every save begins with.
LEMMA BeginStep ==
    ASSUME SettingsInv, NEW values, NEW fields, NEW read,
           Begin(values, fields, read), ~values.torn, Holds(values, fields, read.lost)
    PROVE  SettingsInv'
<1>1. /\ saving' = [step |-> "open", values |-> values, fields |-> fields,
                    lost |-> read.lost \ fields]
      /\ stored' = Torn /\ settings' = settings /\ saving.step = "idle"
      /\ meant'.values = meant.values /\ meant'.gone = meant.gone
  BY DEF Begin, Idle, SettingsInv
<1>2. Holds(values, fields, read.lost \ fields)'
  BY <1>1 DEF Holds
<1> QED BY <1>1, <1>2 DEF SettingsInv, Holds

\* What a preset or a start finds in the file.
LEMMA ReadStep ==
    ASSUME SettingsInv, saving.step # "open", NEW read \in Reads
    PROVE  Holds(read.seen, {}, read.lost)
BY DEF SettingsInv, Reads, Unreadable, Holds, Torn, Fields

LEMMA SettingsStep == SettingsInv /\ [Next]_vars => SettingsInv'
<1> SUFFICES ASSUME SettingsInv, [Next]_vars PROVE SettingsInv'
  OBVIOUS
<1>1. CASE UNCHANGED SettingsVars
  BY <1>1 DEF SettingsVars, SettingsInv, Holds
<1>2. ASSUME NEW m \in Models, Preset(m) PROVE SettingsInv'
  <2>1. PICK read \in Reads : Begin(Values(m, read.seen.total), {"model"}, read)
    BY <1>2 DEF Preset
  <2>2. Holds(read.seen, {}, read.lost)
    BY <2>1, ReadStep DEF Begin, Idle
  <2>3. Holds(Values(m, read.seen.total), {"model"}, read.lost)
    BY <2>2 DEF Holds, Values, Fields
  <2> QED BY <2>1, <2>3, BeginStep DEF Values
<1>3. ASSUME NEW m, NEW t, SaveForm(m, t) PROVE SettingsInv'
  <2>1. Holds(Values(m, t), Fields, NoRead.lost)
    BY DEF Holds
  <2> QED BY <1>3, <2>1, BeginStep DEF SaveForm, Values
<1>4. CASE Reset
  <2>1. Holds(Values(Unset, Unset), Fields, NoRead.lost)
    BY DEF Holds
  <2> QED BY <1>4, <2>1, BeginStep DEF Reset, Values
<1>5. CASE Fill
  <2>1. /\ stored' = saving.values /\ saving'.step = "filled"
        /\ saving'.values = saving.values
    BY <1>5 DEF Fill, SettingsInv
  <2>2. Holds(stored, {}, meant.lost)'
    <3>1. \A f \in Fields : /\ meant'.values[f] = IF f \in saving.fields THEN saving.values[f]
                                                  ELSE meant.values[f]
                            /\ meant'.lost = saving.lost
      BY <1>5 DEF Fill, Fields, Torn
    <3> QED BY <1>5, <2>1, <3>1 DEF Fill, SettingsInv, Holds
  <2> QED BY <2>1, <2>2 DEF SettingsInv
<1>6. CASE SaveFails
  <2>1. /\ saving.step = "open" /\ saving'.step = "idle" /\ stored' = Torn
        /\ settings' = settings /\ meant'.lost = Fields
        /\ meant'.values = meant.values /\ meant'.gone = meant.gone
    BY <1>6 DEF SaveFails, SettingsInv, Idle
  <2> QED BY <2>1 DEF SettingsInv, Holds, Torn, Fields
<1>7. CASE Assign
  <2>1. /\ saving.step = "filled" /\ saving'.step = "idle" /\ stored' = stored
        /\ settings' = Apply(stored) /\ meant'.lost = meant.lost
        /\ meant'.values = meant.values /\ meant'.gone = meant.lost
    BY <1>7 DEF Assign, SettingsInv, Idle
  <2> QED BY <2>1 DEF SettingsInv, Holds, Apply
<1>8. CASE Crash
  <2> DEFINE torn == IF saving.step = "open" THEN Fields ELSE {}
  <2>1. PICK read \in Reads :
            /\ settings' = Apply(read.seen)
            /\ meant' = [meant EXCEPT !.crashes = @ + 1, !.faults = @ + read.faults,
                                      !.lost = @ \cup torn, !.gone = read.lost \cup torn]
    BY <1>8 DEF Crash
  <2> HIDE DEF torn
  <2>2. /\ saving'.step = "idle" /\ stored' = stored
        /\ meant'.values = meant.values /\ meant'.lost = meant.lost \cup torn
        /\ meant'.gone = read.lost \cup torn
    <3>1. saving'.step = "idle" /\ stored' = stored
      BY <1>8 DEF Crash, Idle
    <3> QED BY <2>1, <3>1
  <2> USE DEF torn
  <2>3. Holds(stored, {}, meant.lost)'
    BY <2>2 DEF SettingsInv, Holds, Torn, Fields
  <2>4. ASSUME NEW f \in Fields
        PROVE  settings'[f] = IF f \in meant'.gone \/ meant'.values[f] = Unset
                              THEN Env[f] ELSE meant'.values[f]
    <3>1. CASE saving.step = "open"
      <4>1. read.seen = Torn
        BY <3>1 DEF SettingsInv, Reads, Unreadable
      <4> QED BY <2>1, <2>2, <3>1, <4>1 DEF Apply, Torn, Fields
    <3>2. CASE saving.step # "open"
      <4>1. read.seen[f] = IF f \in read.lost THEN Unset ELSE meant.values[f]
        BY <3>2, ReadStep DEF Holds
      <4> QED BY <2>1, <2>2, <3>2, <4>1 DEF Apply
    <3> QED BY <3>1, <3>2
  <2> QED BY <2>2, <2>3, <2>4 DEF SettingsInv
<1>9. ASSUME NEW j \in Jobs,
             View(j) \/ Post(j) \/ Refuse(j) \/ Build(j) \/ StartImport(j)
             \/ Fail(j) \/ Charge(j) \/ Open(j) \/ Close(j) \/ Link(j)
      PROVE UNCHANGED SettingsVars
  BY <1>9 DEF SettingsVars, page, View, Post, Refuse, Build, StartImport, Fail, Charge,
              Open, Close, Link
<1>10. CASE Tick
  BY <1>1, <1>10 DEF Tick, page, SettingsVars
<1>11. CASE UNCHANGED vars
  BY <1>1, <1>11 DEF vars, SettingsVars
<1> QED BY <1>1, <1>2, <1>3, <1>4, <1>5, <1>6, <1>7, <1>8, <1>9, <1>10, <1>11 DEF Next

\* What the settings page was given is in force whenever no save is under way,
\* except for fields that a crash or a failed write in the middle of a save, or
\* a file that could not be read, has taken away.
THEOREM LimitsHold == Spec => []LimitsForgottenOnlyByMishap
<1>1. SettingsInv => LimitsForgottenOnlyByMishap
  BY DEF SettingsInv, LimitsForgottenOnlyByMishap, Idle
<1> QED BY <1>1, SettingsInit, SettingsStep, PTL DEF Spec
-----------------------------------------------------------------------------
(* The model. *)

LEMMA TypesInit == Init => Types
BY SettingsAssumption DEF Init, Types, Places, Names, Idle

LEMMA TypesStep == Types /\ [Next]_vars => Types'
<1> SUFFICES ASSUME Types, [Next]_vars PROVE Types'
  OBVIOUS
<1> USE SettingsAssumption DEF Types, Places
<1>1. ASSUME NEW values, NEW fields, NEW read, Begin(values, fields, read) PROVE Types'
  BY <1>1 DEF Begin, files
<1>2. ASSUME NEW m \in Models, Preset(m) \/ \E t \in Totals \cup {Unset} : SaveForm(m, t)
      PROVE Types'
  BY <1>1, <1>2 DEF Preset, SaveForm
<1>3. CASE Reset
  BY <1>1, <1>3 DEF Reset
<1>4. CASE Fill \/ SaveFails
  <2>1. saving'.step \in {"idle", "open", "filled"}
    <3>1. CASE Fill
      BY <3>1 DEF Fill
    <3>2. CASE SaveFails
      BY <3>2 DEF SaveFails, Idle
    <3> QED BY <1>4, <3>1, <3>2
  <2>2. UNCHANGED <<pc, shown, built, files, second, moved>>
    BY <1>4 DEF Fill, SaveFails
  <2> QED BY <2>1, <2>2 DEF files
<1>5. ASSUME NEW new PROVE MovedTo(new) \in [Jobs -> SUBSET {"page", "form"}]
  BY DEF MovedTo
<1>6. CASE Assign
  BY <1>5, <1>6 DEF Assign, files, Idle
<1>7. CASE Crash
  BY <1>5, <1>7 DEF Crash, files, Idle
<1>8. ASSUME NEW j \in Jobs,
             View(j) \/ Post(j) \/ Refuse(j) \/ Build(j) \/ StartImport(j)
      PROVE Types'
  BY <1>8 DEF View, Post, Refuse, Build, StartImport, page, files
<1>9. ASSUME NEW j \in Jobs, Fail(j) \/ Charge(j) \/ Close(j) \/ Link(j) PROVE Types'
  BY <1>9 DEF Fail, Charge, Close, Link, page, files
<1>10. ASSUME NEW j \in Jobs, Open(j) PROVE Types'
  BY <1>10 DEF Open, page, Names, Jobs
<1>11. CASE Tick
  BY <1>11 DEF Tick, page, files
<1>12. CASE UNCHANGED vars
  BY <1>12 DEF vars
<1> QED BY <1>2, <1>3, <1>4, <1>6, <1>7, <1>8, <1>9, <1>10, <1>11, <1>12 DEF Next

\* Why a thread's model can differ only after a change: from the page to the
\* check of the form, from the check to the thread's start, and thereafter.
ModelInv ==
    \A j \in Jobs :
        /\ pc[j] \in {"viewed", "posted"} /\ settings.model # shown[j] => "page" \in moved[j]
        /\ pc[j] = "posted" /\ KindOf[settings.model] # KindOf[shown[j]] => "form" \in moved[j]
        /\ built[j] # Nothing =>
               /\ pc[j] \notin {"new", "viewed", "posted"}
               /\ built[j].kind = KindOf[shown[j]]
               /\ built[j].model # shown[j] => "page" \in moved[j]
               /\ KindOf[built[j].model] # built[j].kind => "form" \in moved[j]

ModelVars == <<settings, pc, shown, built, moved>>

LEMMA ModelInit == Init => ModelInv
BY DEF Init, ModelInv

\* Replacing the settings is noted for every open page and every thread to come.
LEMMA ModelMoved ==
    ASSUME Types, ModelInv, NEW new, settings' = new, moved' = MovedTo(new),
           UNCHANGED <<shown, built>>,
           \A j \in Jobs : pc'[j] # pc[j] => pc'[j] = "killed"
    PROVE  ModelInv'
<1> SUFFICES ASSUME NEW j \in Jobs
             PROVE  /\ pc'[j] \in {"viewed", "posted"} /\ new.model # shown[j] => "page" \in moved'[j]
                    /\ pc'[j] = "posted" /\ KindOf[new.model] # KindOf[shown[j]] => "form" \in moved'[j]
                    /\ built[j] # Nothing =>
                           /\ pc'[j] \notin {"new", "viewed", "posted"}
                           /\ built[j].kind = KindOf[shown[j]]
                           /\ built[j].model # shown[j] => "page" \in moved'[j]
                           /\ KindOf[built[j].model] # built[j].kind => "form" \in moved'[j]
  BY DEF ModelInv
<1>1. moved'[j] = IF new.model = settings.model THEN moved[j]
                  ELSE CASE pc[j] = "viewed" -> moved[j] \cup {"page"}
                         [] pc[j] = "posted" -> moved[j] \cup {"page", "form"}
                         [] OTHER -> moved[j]
  BY DEF MovedTo
<1> QED BY <1>1 DEF ModelInv

LEMMA ModelStep == Types /\ ModelInv /\ [Next]_vars => ModelInv'
<1> SUFFICES ASSUME Types, ModelInv, [Next]_vars PROVE ModelInv'
  OBVIOUS
<1>1. CASE UNCHANGED ModelVars
  BY <1>1 DEF ModelVars, ModelInv
<1>2. ASSUME NEW m \in Models, Preset(m) \/ \E t \in Totals \cup {Unset} : SaveForm(m, t)
      PROVE ModelInv'
  BY <1>1, <1>2 DEF Preset, SaveForm, Begin, ModelVars
<1>3. CASE Reset \/ Fill \/ SaveFails \/ Tick
  BY <1>1, <1>3 DEF Reset, Begin, Fill, SaveFails, Tick, page, ModelVars
<1>4. CASE Assign
  BY <1>4, ModelMoved DEF Assign, files
<1>5. CASE Crash
  <2>1. \A j \in Jobs : pc'[j] # pc[j] => pc'[j] = "killed"
    BY <1>5 DEF Crash
  <2> QED BY <1>5, <2>1, ModelMoved DEF Crash
<1>6. ASSUME NEW j \in Jobs, View(j) PROVE ModelInv'
  BY <1>6 DEF View, page, Types, ModelInv
<1>7. ASSUME NEW j \in Jobs, Post(j) \/ Refuse(j) PROVE ModelInv'
  BY <1>7 DEF Post, Refuse, page, Types, ModelInv
<1>8. ASSUME NEW j \in Jobs, Build(j) PROVE ModelInv'
  BY <1>8 DEF Build, page, Types, ModelInv
<1>9. ASSUME NEW j \in Jobs, StartImport(j) PROVE ModelInv'
  BY <1>9 DEF StartImport, page, Types, ModelInv
<1>10. ASSUME NEW j \in Jobs, Fail(j) \/ Charge(j) \/ Open(j) \/ Close(j) \/ Link(j) PROVE ModelInv'
  <2>1. UNCHANGED <<settings, shown, built, moved>>
    BY <1>10 DEF Fail, Charge, Open, Close, Link, page
  <2>2. pc[j] \notin {"new", "viewed", "posted"}
    BY <1>10 DEF Fail, Charge, Open, Close, Link
  <2>3. \A k \in Jobs : pc'[k] # pc[k] => pc[k] \notin {"new", "viewed", "posted"}
                                       /\ pc'[k] \notin {"new", "viewed", "posted"}
    BY <1>10, <2>2 DEF Fail, Charge, Open, Close, Link, Types
  <2> QED BY <2>1, <2>3 DEF ModelInv
<1>11. CASE UNCHANGED vars
  BY <1>1, <1>11 DEF vars, ModelVars
<1> QED BY <1>2, <1>3, <1>4, <1>5, <1>6, <1>7, <1>8, <1>9, <1>10, <1>11 DEF Next

\* A review works with another model than its page showed only if the model in
\* force was changed in between, and with another kind of provider only if it
\* was changed after the form was checked.
THEOREM ModelHolds == Spec => []ModelIsTheOneShown
<1>1. ModelInv => ModelIsTheOneShown
  BY DEF ModelInv, ModelIsTheOneShown, Jobs
<1> QED BY <1>1, TypesInit, TypesStep, ModelInit, ModelStep, PTL DEF Spec
-----------------------------------------------------------------------------
(* The files. *)

Opened == {"writing", "wrote", "done", "failed", "killed"}

\* Why LinksHold holds: a file holds the text of jobs that opened it, a job
\* opens one file, once, and a review books before it opens.
LinkInv ==
    /\ \A j \in Jobs :
           /\ name[j] # Unset => pc[j] \in Opened
           /\ j \in Reviews /\ name[j] # Unset => name[j] = j
           /\ j \in Imports /\ name[j] # Unset => name[j] \in Nat
           /\ pc[j] \in {"writing", "wrote", "done"} =>
                  name[j] # Unset /\ (disk[name[j]] = {j} \/ SameName(j) # {})
           /\ pc[j] \in {"wrote", "done"} => j \in written
           /\ j \in Reviews /\ (pc[j] = "charged" \/ name[j] # Unset) => j \in charged
    /\ \A n \in Names : \A k \in disk[n] : name[k] = n

LEMMA LinkInit == Init => LinkInv
BY DEF Init, LinkInv

LEMMA LinkOpen ==
    ASSUME Types, LinkInv, NEW j \in Jobs, Open(j)
    PROVE  LinkInv'
<1> USE SettingsAssumption DEF Types
<1> DEFINE n == IF j \in Reviews THEN j ELSE second
<1>1. /\ n \in Names /\ n # Unset /\ name' = [name EXCEPT ![j] = n]
      /\ disk' = [disk EXCEPT ![n] = {j} \cup {k \in disk[n] : pc[k] = "writing"}]
      /\ pc' = [pc EXCEPT ![j] = "writing"]
      /\ written' = written /\ charged' = charged
      /\ pc[j] = IF j \in Reviews THEN "charged" ELSE "running"
  BY DEF Open, Names
<1>2. name[j] = Unset
  BY <1>1 DEF LinkInv, Opened
<1>3. /\ name'[j] = n /\ \A k \in Jobs \ {j} : name'[k] = name[k] /\ pc'[k] = pc[k]
      /\ pc'[j] = "writing"
  BY <1>1
<1>4. ASSUME NEW k \in Jobs, name[k] # Unset PROVE SameName(k) \subseteq SameName(k)'
  BY <1>2, <1>3, <1>4 DEF SameName
<1>5. \A m \in Names : \A k \in disk'[m] : k \in Jobs /\ name'[k] = m
  BY <1>1, <1>2, <1>3 DEF LinkInv, Names
<1>6. disk'[n] = {j} \/ SameName(j)' # {}
  BY <1>1, <1>3, <1>5 DEF SameName
<1>7. ASSUME NEW k \in Jobs \ {j}, name[k] # Unset, disk[name[k]] = {k} \/ SameName(k) # {}
      PROVE  disk'[name[k]] = {k} \/ SameName(k)' # {}
  <2>1. CASE name[k] = n
    BY <1>3, <2>1 DEF SameName
  <2>2. CASE name[k] # n
    BY <1>1, <1>4, <1>7, <2>2
  <2> QED BY <2>1, <2>2
<1>8. ASSUME NEW k \in Jobs
      PROVE  /\ name'[k] # Unset => pc'[k] \in Opened
             /\ k \in Reviews /\ name'[k] # Unset => name'[k] = k
             /\ k \in Imports /\ name'[k] # Unset => name'[k] \in Nat
             /\ pc'[k] \in {"writing", "wrote", "done"} =>
                    name'[k] # Unset /\ (disk'[name'[k]] = {k} \/ SameName(k)' # {})
             /\ pc'[k] \in {"wrote", "done"} => k \in written
             /\ k \in Reviews /\ (pc'[k] = "charged" \/ name'[k] # Unset) => k \in charged
  <2>1. CASE k = j
    BY <1>1, <1>3, <1>6, <2>1 DEF LinkInv, Opened
  <2>2. CASE k # j
    BY <1>3, <1>7, <2>2 DEF LinkInv
  <2> QED BY <2>1, <2>2
<1> QED BY <1>1, <1>5, <1>8 DEF LinkInv

\* A step that leaves the names and the files alone.
LEMMA LinkQuiet ==
    ASSUME LinkInv, UNCHANGED <<name, disk>>,
           charged \subseteq charged', written \subseteq written',
           \A j \in Jobs :
               /\ pc'[j] = pc[j] \/ pc'[j] \in {"wrote", "done", "failed", "killed"}
                                 \/ (name[j] = Unset /\ pc'[j] \in Places \ Opened)
               /\ pc'[j] \in {"wrote", "done"} => pc[j] \in {"writing", "wrote", "done"} /\ j \in written'
               /\ j \in Reviews /\ pc'[j] = "charged" => j \in charged'
    PROVE  LinkInv'
<1>1. \A j \in Jobs : SameName(j)' = SameName(j)
  BY DEF SameName
<1> QED BY <1>1 DEF LinkInv, Opened

LEMMA LinkStep == Types /\ LinkInv /\ [Next]_vars => LinkInv'
<1> SUFFICES ASSUME Types, LinkInv, [Next]_vars PROVE LinkInv'
  OBVIOUS
<1> USE DEF Types, Places
<1>1. CASE UNCHANGED <<pc, files>>
  BY <1>1, LinkQuiet DEF files, LinkInv
<1>2. ASSUME NEW m \in Models, Preset(m) \/ \E t \in Totals \cup {Unset} : SaveForm(m, t)
      PROVE LinkInv'
  BY <1>1, <1>2 DEF Preset, SaveForm, Begin
<1>3. CASE Reset \/ Fill \/ SaveFails \/ Tick \/ Assign
  BY <1>1, <1>3 DEF Reset, Begin, Fill, SaveFails, Tick, Assign
<1>4. CASE Crash
  BY <1>4, LinkQuiet DEF Crash, files, LinkInv
<1>5. ASSUME NEW j \in Jobs,
             View(j) \/ Post(j) \/ Refuse(j) \/ Build(j) \/ StartImport(j)
      PROVE LinkInv'
  <2>1. name[j] = Unset
    BY <1>5 DEF View, Post, Refuse, Build, StartImport, LinkInv, Opened
  <2> QED BY <1>5, <2>1, LinkQuiet
          DEF View, Post, Refuse, Build, StartImport, files, Opened, LinkInv
<1>6. ASSUME NEW j \in Jobs, Fail(j) PROVE LinkInv'
  BY <1>6, LinkQuiet DEF Fail, files, LinkInv
<1>7. ASSUME NEW j \in Jobs, Charge(j) PROVE LinkInv'
  <2>1. name[j] = Unset
    BY <1>7 DEF Charge, LinkInv, Opened
  <2> QED BY <1>7, <2>1, LinkQuiet DEF Charge, Opened, LinkInv
<1>8. ASSUME NEW j \in Jobs, Open(j) PROVE LinkInv'
  BY <1>8, LinkOpen
<1>9. ASSUME NEW j \in Jobs, Close(j) PROVE LinkInv'
  BY <1>9, LinkQuiet DEF Close, LinkInv
<1>10. ASSUME NEW j \in Jobs, Link(j) PROVE LinkInv'
  BY <1>10, LinkQuiet DEF Link, files, LinkInv
<1>11. CASE UNCHANGED vars
  BY <1>1, <1>11 DEF vars, files
<1> QED BY <1>2, <1>3, <1>4, <1>5, <1>6, <1>7, <1>8, <1>9, <1>10, <1>11 DEF Next

\* A link leads to the job's own complete file, or to a second another import
\* shares; and no record of a review is on disk that is not in the ledger.
THEOREM FilesHold == Spec => []LinksHold
<1>1. Types /\ LinkInv => LinksHold
  <2> SUFFICES ASSUME Types, LinkInv PROVE LinksHold
    OBVIOUS
  <2> USE SettingsAssumption DEF Types, LinkInv
  <2>1. ASSUME NEW j \in Jobs, pc[j] = "done"
        PROVE  \/ disk[name[j]] = {j} /\ j \in written
               \/ j \in Imports /\ SameName(j) # {}
    <3>1. name[j] # Unset /\ j \in written /\ (disk[name[j]] = {j} \/ SameName(j) # {})
      BY <2>1
    <3>2. j \in Reviews => SameName(j) = {}
      BY <3>1 DEF SameName, Jobs
    <3> QED BY <3>1, <3>2 DEF Jobs
  <2>2. ASSUME NEW j \in Reviews, disk[j] # {} PROVE j \in charged
    <3>1. PICK k \in disk[j] : TRUE
      BY <2>2
    <3>2. k \in Jobs /\ name[k] = j
      BY <3>1 DEF Names
    <3> QED BY <3>2 DEF Jobs
  <2> QED BY <2>1, <2>2 DEF LinksHold
<1> QED BY <1>1, TypesInit, TypesStep, LinkInit, LinkStep, PTL DEF Spec
=============================================================================
