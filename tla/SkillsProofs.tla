----------------------------- MODULE SkillsProofs -----------------------------
(***************************************************************************)
(* Proofs about Skills for any number of skills, nodes, domains and        *)
(* goroutines: types, that the three lists of allowed domains agree, and   *)
(* that a skill's node has its file.                                       *)
(***************************************************************************)
EXTENDS Skills, TLAPS

-----------------------------------------------------------------------------
(* Types.                                                                  *)

OfSkill == {"download", "fetch", "gate", "confirm", "write", "create", "remove", "drop",
            "update", "rewrite"}
OfNode == {"remove", "drop", "update", "rewrite"}
Places == OfSkill \cup {"idle", "merge", "enforce", "relink", "save"}

\* A goroutine that works on a skill, or on a node, has one.
Sound == {x \in Thread : /\ x.at \in OfSkill => x.slug \in Slugs
                         /\ x.at \in OfNode => x.node \in Nodes}

Tables ==
  /\ nodes \in [Nodes -> Row]
  /\ disk \in SUBSET Slugs
  /\ allowed \in SUBSET Domains /\ saved \in SUBSET Domains /\ enforced \in SUBSET Domains
  /\ faults \in 0 .. MaxFaults
  /\ stripped \in SUBSET Nodes
  /\ apart \in BOOLEAN

Types == Tables /\ thread \in [Handlers -> Sound]

LEMMA TypesImply == Types => TypeOK
<1> Sound \subseteq Thread
  BY DEF Sound
<1> QED
  BY DEF Types, Tables, TypeOK

LEMMA IdleSound == Idle \in Sound /\ Idle.at = "idle"
  BY DEF Idle, Sound, Thread, OfSkill, OfNode

LEMMA BegunSound ==
  ASSUME NEW s \in Slugs, NEW place \in OfSkill \ OfNode
  PROVE  [Idle EXCEPT !.at = place, !.slug = s] \in Sound
  BY DEF Idle, Sound, Thread, OfSkill, OfNode

LEMMA DomainsSound ==
  ASSUME NEW ds \in SUBSET Domains, NEW place \in {"merge", "save"}
  PROVE  [Idle EXCEPT !.at = place, !.domains = ds] \in Sound
  BY DEF Idle, Sound, Thread, OfSkill, OfNode

LEMMA MovedSound ==
  ASSUME NEW x \in Sound, NEW place \in Places,
         place \in OfSkill => x.at \in OfSkill, place \in OfNode => x.at \in OfNode
  PROVE  [x EXCEPT !.at = place] \in Sound
  BY DEF Sound, Thread, Places, OfSkill, OfNode

LEMMA GoSound ==
  ASSUME Types, NEW t \in Handlers, NEW place \in Places, Go(t, place),
         place \in OfSkill => thread[t].at \in OfSkill,
         place \in OfNode => thread[t].at \in OfNode
  PROVE  thread' \in [Handlers -> Sound]
<1>1. [thread[t] EXCEPT !.at = place] \in Sound
  BY MovedSound DEF Types
<1> QED
  BY <1>1 DEF Go, Types

LEMMA EndsSound ==
  ASSUME Types, NEW t \in Handlers, Ends(t)
  PROVE  thread' \in [Handlers -> Sound]
  BY IdleSound DEF Ends, Types

LEMMA BeginsSound ==
  ASSUME Types, NEW t \in Handlers, NEW s \in Slugs, NEW place \in OfSkill \ OfNode, Begins(t, place, s)
  PROVE  thread' \in [Handlers -> Sound]
  BY BegunSound DEF Begins, Types

LEMMA MergesSound ==
  ASSUME Types, NEW t \in Handlers, thread[t].at \in OfSkill, Merges(t)
  PROVE  thread' \in [Handlers -> Sound]
<1>1. Mentions[thread[t].slug] \in SUBSET Domains
  BY SkillsAssumption DEF Types, Sound
<1> QED
  BY <1>1, DomainsSound DEF Merges, Types

\* A node that is there has a skill.
LEMMA HereRow ==
  ASSUME Tables, NEW n \in Nodes, Here(n)
  PROVE  nodes[n].slug \in Slugs /\ nodes[n].linked \in BOOLEAN /\ nodes[n] \in [status : {"here"}, slug : Slugs, linked : BOOLEAN]
<1>1. NoRow.status = "none" /\ GoneRow.status = "gone"
  BY DEF NoRow, GoneRow
<1>2. nodes[n] \in [status : {"here"}, slug : Slugs, linked : BOOLEAN]
  BY <1>1 DEF Tables, Row, Here
<1> QED
  BY <1>2

LEMMA GetNodeSound ==
  ASSUME Types, NEW t \in Handlers, NEW n \in Nodes, NEW place \in {"remove", "update"},
         GetNode(t, n, place)
  PROVE  thread' \in [Handlers -> Sound]
<1> DEFINE x == [Idle EXCEPT !.at = place, !.slug = nodes[n].slug, !.node = n, !.linked = nodes[n].linked]
<1>1. x \in Sound
  BY HereRow DEF GetNode, Types, Idle, Sound, Thread, OfSkill, OfNode
<1> HIDE DEF x
<1>2. thread' = [thread EXCEPT ![t] = x]
  BY DEF GetNode, x
<1> QED
  BY <1>1, <1>2 DEF Types

LEMMA RowsSound == NoRow \in Row /\ GoneRow \in Row /\ \A s \in Slugs : NewRow(s) \in Row
  BY DEF Row, NewRow

LEMMA InstallTypes ==
  ASSUME Types, NEW t \in Handlers, InstallStep(t)
  PROVE  Types'
<1>1. ASSUME NEW s \in Slugs,
             \/ handleInstallSkill(t, s) \/ installSkill(t, s)
             \/ handleImportSkill(t, s) \/ createSkill(t, s)
      PROVE  Types'
  <2>1. \E place \in OfSkill \ OfNode : Begins(t, place, s)
    BY <1>1 DEF handleInstallSkill, Install, installSkill, handleImportSkill, createSkill, CreateSkill,
                OfSkill, OfNode
  <2>2. thread' \in [Handlers -> Sound]
    BY <2>1, BeginsSound
  <2> QED
    BY <1>1, <2>2 DEF handleInstallSkill, Install, installSkill, handleImportSkill, createSkill,
                      CreateSkill, Types, Tables, lists, config
<1>2. ASSUME NEW ok \in BOOLEAN, DownloadSkill(t, ok) PROVE Types'
  <2>1. thread' \in [Handlers -> Sound]
    BY <1>2, EndsSound, GoSound DEF DownloadSkill, Places, OfSkill, OfNode
  <2> QED
    BY <1>2, <2>1 DEF DownloadSkill, Types, Tables, lists, config
<1>3. ASSUME NEW suspicious \in BOOLEAN, NEW force \in BOOLEAN, Gate(t, suspicious, force) PROVE Types'
  <2>1. thread' \in [Handlers -> Sound]
    BY <1>3, EndsSound, GoSound DEF Gate, Places, OfSkill, OfNode
  <2> QED
    BY <1>3, <2>1 DEF Gate, Types, Tables, lists, config
<1>4. CASE FindNode(t)
  <2>1. thread' \in [Handlers -> Sound]
    BY <1>4, EndsSound, GoSound DEF FindNode, Places, OfSkill, OfNode
  <2> QED
    BY <1>4, <2>1 DEF FindNode, Types, Tables, lists, config
<1>5. ASSUME NEW ok \in BOOLEAN, WriteFile(t, ok) PROVE Types'
  <2>1. thread' \in [Handlers -> Sound]
    BY <1>5, EndsSound, GoSound DEF WriteFile, Places, OfSkill, OfNode
  <2>2. thread[t].slug \in Slugs
    BY <1>5 DEF WriteFile, Types, Sound, OfSkill
  <2> QED
    BY <1>5, <2>1, <2>2, SkillsAssumption DEF WriteFile, Written, Fault, Types, Tables, lists, config
<1>6. ASSUME NEW ok \in BOOLEAN, CreateNode(t, ok) PROVE Types'
  <2>1. thread[t].at \in OfSkill /\ thread[t].slug \in Slugs
    BY <1>6 DEF CreateNode, Types, Sound, OfSkill
  <2>2. thread' \in [Handlers -> Sound]
    BY <1>6, <2>1, EndsSound, MergesSound DEF CreateNode, InstallFromContent
  <2>3. nodes' \in [Nodes -> Row] /\ stripped' \in SUBSET Nodes
    BY <1>6, <2>1, RowsSound DEF CreateNode, InstallFromContent, Linked, Unused, Types, Tables
  <2> QED
    BY <1>6, <2>2, <2>3, SkillsAssumption DEF CreateNode, Fault, Types, Tables, lists, config
<1> QED
  BY <1>1, <1>2, <1>3, <1>4, <1>5, <1>6 DEF InstallStep

LEMMA ListTypes ==
  ASSUME Types, NEW t \in Handlers, ListStep(t)
  PROVE  Types'
<1>1. ASSUME NEW place \in {"merge", "save"}, NEW ds \in SUBSET Domains,
             thread' = [thread EXCEPT ![t] = [Idle EXCEPT !.at = place, !.domains = ds]]
      PROVE  thread' \in [Handlers -> Sound]
  BY <1>1, DomainsSound DEF Types
<1>2. ASSUME NEW d \in Domains, AllowDomain(t, d) PROVE Types'
  <2>1. {d} \in SUBSET Domains
    OBVIOUS
  <2>2. thread' \in [Handlers -> Sound]
    BY <1>1, <1>2, <2>1 DEF AllowDomain
  <2> QED
    BY <1>2, <2>2 DEF AllowDomain, Types, Tables, lists, config
<1>3. ASSUME NEW ds \in SUBSET Domains, UpdateSettings(t, ds) PROVE Types'
  BY <1>1, <1>3 DEF UpdateSettings, Types, Tables, config
<1>4. CASE ReadConfig(t)
  <2>1. thread' \in [Handlers -> Sound]
    BY <1>1, <1>4 DEF ReadConfig, Types, Tables
  <2>2. apart' \in BOOLEAN
    BY <1>4, Zenon DEF ReadConfig
  <2> QED
    BY <1>4, <2>1, <2>2 DEF ReadConfig, Types, Tables, config
<1>5. CASE SetAllowedDomains(t)
  <2>1. thread' \in [Handlers -> Sound] /\ thread[t].domains \in SUBSET Domains
    BY <1>5, EndsSound DEF SetAllowedDomains, Types, Sound, Thread
  <2> QED
    BY <1>5, <2>1 DEF SetAllowedDomains, Types, Tables, config
<1>6. ASSUME NEW ok \in BOOLEAN, Merge(t, ok) PROVE Types'
  <2>1. thread[t].domains \in SUBSET Domains /\ thread[t] \in Sound
    BY DEF Types, Sound, Thread
  <2>2. allowed' \in SUBSET Domains /\ saved' \in SUBSET Domains /\ faults' \in 0 .. MaxFaults
    BY <1>6, <2>1, SkillsAssumption DEF Merge, Fault, Types, Tables
  <2>3. apart' \in BOOLEAN
    BY <1>6, Zenon DEF Merge
  <2>4. [thread[t] EXCEPT !.at = "enforce", !.domains = allowed'] \in Sound
    BY <2>1, <2>2 DEF Sound, Thread, OfSkill, OfNode
  <2>5. \/ Ends(t)
        \/ thread' = [thread EXCEPT ![t] = [thread[t] EXCEPT !.at = "enforce", !.domains = allowed']]
    BY <1>6 DEF Merge
  <2>6. thread' \in [Handlers -> Sound]
    BY <2>4, <2>5, EndsSound DEF Types
  <2> QED
    BY <1>6, <2>2, <2>3, <2>6 DEF Merge, Types, Tables
<1>7. ASSUME NEW ok \in BOOLEAN, Save(t, ok) PROVE Types'
  <2>1. thread' \in [Handlers -> Sound] /\ thread[t].domains \in SUBSET Domains
    BY <1>7, EndsSound DEF Save, Types, Sound, Thread
  <2>2. apart' \in BOOLEAN
    BY <1>7, Zenon DEF Save
  <2> QED
    BY <1>7, <2>1, <2>2, SkillsAssumption DEF Save, Fault, Types, Tables, config
<1> QED
  BY <1>2, <1>3, <1>4, <1>5, <1>6, <1>7 DEF ListStep

LEMMA RobbedSound ==
  ASSUME NEW x \in Sound, NEW b \in BOOLEAN
  PROVE  [x EXCEPT !.robbed = b] \in Sound
  BY DEF Sound, Thread

LEMMA SkillTypes ==
  ASSUME Types, NEW t \in Handlers, SkillStep(t)
  PROVE  Types'
<1>1. ASSUME NEW n \in Nodes,
             Uninstall(t, n) \/ handleUpdateSkill(t, n) \/ updateSkill(t, n)
      PROVE  Types'
  <2>1. thread' \in [Handlers -> Sound]
    BY <1>1, GetNodeSound DEF Uninstall, handleUpdateSkill, updateSkill, UpdateSkill
  <2> QED
    BY <1>1, <2>1
    DEF Uninstall, handleUpdateSkill, updateSkill, UpdateSkill, Types, Tables, lists, config
<1>2. ASSUME NEW n \in Nodes, readSkill(t, n) PROVE Types'
  <2>1. Mentions[nodes[n].slug] \in SUBSET Domains
    BY <1>2, HereRow, SkillsAssumption DEF readSkill, ReadSkill, Types
  <2>2. thread' \in [Handlers -> Sound]
    BY <1>2, <2>1, DomainsSound DEF readSkill, ReadSkill, Types
  <2> QED
    BY <1>2, <2>2 DEF readSkill, ReadSkill, Types, Tables, lists, config
<1>3. ASSUME NEW n \in Nodes, Relink(t, n) PROVE Types'
  <2>1. nodes' \in [Nodes -> Row] /\ stripped' \in SUBSET Nodes
    <3>1. Here(n) => [nodes[n] EXCEPT !.linked = TRUE] \in Row
      BY HereRow DEF Types, Row
    <3> QED
      BY <1>3, <3>1 DEF Relink, Linked, Types, Tables
  <2> DEFINE rest == thread[t].todo \ {n}
  <2>2. [thread[t] EXCEPT !.todo = rest] \in Sound
    BY DEF Types, Sound, Thread
  <2>3. \E x \in Sound : thread' = [thread EXCEPT ![t] = x]
    BY <1>3, <2>2, IdleSound DEF Relink
  <2>4. thread' \in [Handlers -> Sound]
    BY <2>3 DEF Types
  <2> QED
    BY <1>3, <2>1, <2>4 DEF Relink, Types, Tables, lists, config
<1>4. ASSUME NEW ok \in BOOLEAN, RemoveAll(t, ok) PROVE Types'
  <2> DEFINE inside == Within[thread[t].slug]
             robs == ok /\ thread[t].linked
             works(x) == thread[x].slug \in inside \/ \E n \in thread[x].todo : nodes[n].slug \in inside
             robbed(x) == thread[x].robbed \/ (robs /\ works(x))
  <2>1. thread' = [x \in Handlers |->
           IF x = t THEN [thread[x] EXCEPT !.at = "drop"] ELSE [thread[x] EXCEPT !.robbed = robbed(x)]]
    BY <1>4 DEF RemoveAll
  <2>2. \A x \in Handlers : robbed(x) \in BOOLEAN
    BY Zenon DEF Types, Sound, Thread
  <2>3. [thread[t] EXCEPT !.at = "drop"] \in Sound
    BY <1>4, MovedSound DEF RemoveAll, Types, Places, OfSkill, OfNode
  <2> HIDE DEF robbed
  <2>4. thread' \in [Handlers -> Sound]
    BY <2>1, <2>2, <2>3, RobbedSound DEF Types
  <2>5. disk' \in SUBSET Slugs /\ stripped' \in SUBSET Nodes /\ faults' \in 0 .. MaxFaults
    BY <1>4, SkillsAssumption DEF RemoveAll, Fault, Types, Tables, At
  <2> QED
    BY <1>4, <2>4, <2>5 DEF RemoveAll, Types, Tables, lists, config
<1>5. ASSUME NEW ok \in BOOLEAN, DeleteNode(t, ok) PROVE Types'
  <2>1. thread[t].node \in Nodes /\ thread' \in [Handlers -> Sound]
    BY <1>5, EndsSound DEF DeleteNode, Types, Sound, OfNode
  <2> QED
    BY <1>5, <2>1, RowsSound, SkillsAssumption DEF DeleteNode, Fault, Types, Tables, lists, config
<1>6. ASSUME NEW ok \in BOOLEAN, RewriteFile(t, ok) PROVE Types'
  <2>1. thread[t].at \in OfSkill /\ thread[t].slug \in Slugs
    BY <1>6 DEF RewriteFile, Types, Sound, OfSkill
  <2>2. thread' \in [Handlers -> Sound]
    BY <1>6, <2>1, EndsSound, MergesSound DEF RewriteFile
  <2> QED
    BY <1>6, <2>1, <2>2, SkillsAssumption
    DEF RewriteFile, Written, Fault, Types, Tables, lists, config
<1>7. ASSUME NEW text \in BOOLEAN, UpdateNode(t, text) PROVE Types'
  <2>1. thread[t].node \in Nodes /\ thread[t].linked \in BOOLEAN
    BY <1>7 DEF UpdateNode, Types, Sound, Thread, OfNode
  <2>2. thread' \in [Handlers -> Sound]
    BY <1>7, EndsSound, GoSound DEF UpdateNode, Places, OfSkill, OfNode
  <2>3. Here(thread[t].node) => [nodes[thread[t].node] EXCEPT !.linked = thread[t].linked] \in Row
    BY <2>1, HereRow DEF Types, Row
  <2> QED
    BY <1>7, <2>1, <2>2, <2>3 DEF UpdateNode, Linked, Types, Tables, lists, config
<1>8. CASE List(t)
  <2>1. PICK first \in SUBSET Nodes :
          thread' = [thread EXCEPT ![t] = [Idle EXCEPT !.at = "relink", !.todo = first]]
    BY <1>8 DEF List
  <2>2. [Idle EXCEPT !.at = "relink", !.todo = first] \in Sound
    BY DEF Idle, Sound, Thread, OfSkill, OfNode
  <2> QED
    BY <1>8, <2>1, <2>2 DEF List, Types, Tables, lists, config
<1> QED
  BY <1>1, <1>2, <1>3, <1>4, <1>5, <1>6, <1>7, <1>8
  DEF SkillStep, handleListSkills, Search, listInstalledSkills, SkillSummaries

\* A start leaves a table and a set of files, however far the bundled skill came.
LEMMA BundledSound ==
  ASSUME NEW table \in [Nodes -> Row], NEW files \in SUBSET Slugs,
         NEW start \in EnsureBundled(table, files)
  PROVE  /\ start.table \in [Nodes -> Row] /\ start.files \in SUBSET Slugs
         /\ files \subseteq start.files
         /\ \A n \in Nodes : \/ start.table[n] = table[n]
                             \/ table[n].status = "none" /\ start.table[n].slug \in start.files
<1>1. CASE start = [table |-> table, files |-> files]
  BY <1>1
<1>2. ASSUME start # [table |-> table, files |-> files] PROVE Bundled \in Slugs
  BY <1>2, SkillsAssumption DEF EnsureBundled
<1>3. CASE start = [table |-> table, files |-> files \cup {Bundled}] /\ Bundled \in Slugs
  BY <1>3
<1>4. ASSUME NEW n \in Nodes, table[n].status = "none", Bundled \in Slugs,
             start = [table |-> [table EXCEPT ![n] = NewRow(Bundled)], files |-> files \cup {Bundled}]
      PROVE  /\ start.table \in [Nodes -> Row] /\ start.files \in SUBSET Slugs
             /\ files \subseteq start.files
             /\ \A m \in Nodes : \/ start.table[m] = table[m]
                                 \/ table[m].status = "none" /\ start.table[m].slug \in start.files
  <2>1. NewRow(Bundled) \in Row /\ NewRow(Bundled).slug = Bundled
    BY <1>4, RowsSound DEF NewRow
  <2> HIDE DEF NewRow
  <2>2. start.table = [table EXCEPT ![n] = NewRow(Bundled)] /\ start.files = files \cup {Bundled}
    BY <1>4
  <2>3. /\ start.table \in [Nodes -> Row] /\ start.table[n] = NewRow(Bundled)
        /\ \A m \in Nodes \ {n} : start.table[m] = table[m]
    BY <2>1, <2>2
  <2> QED
    BY <1>4, <2>1, <2>2, <2>3
<1> QED
  BY <1>1, <1>2, <1>3, <1>4 DEF EnsureBundled

LEMMA RestartTypes == Types /\ Restart => Types'
<1> SUFFICES ASSUME Types, Restart PROVE Types'
  OBVIOUS
<1>1. PICK start \in EnsureBundled(nodes, disk) :
        /\ nodes' = start.table /\ disk' = start.files
        /\ stripped' = stripped \cup {thread[t].node : t \in {x \in Handlers : thread[x].at = "drop"}}
  BY DEF Restart
<1>2. nodes' \in [Nodes -> Row] /\ disk' \in SUBSET Slugs
  BY <1>1, BundledSound DEF Types, Tables
<1>3. \A t \in Handlers : thread[t].at = "drop" => thread[t].node \in Nodes
  BY DEF Types, Sound, OfNode
<1>4. stripped' \in SUBSET Nodes
  BY <1>1, <1>3 DEF Types, Tables
<1>5. thread' \in [Handlers -> Sound]
  BY IdleSound DEF Restart
<1>6. saved' \in SUBSET Domains /\ allowed' = saved' /\ enforced' = saved' /\ apart' = FALSE
  BY DEF Restart, Types, Tables
<1>7. faults' \in 0 .. MaxFaults
  BY SkillsAssumption DEF Restart, Fault, Types, Tables
<1> QED
  BY <1>2, <1>4, <1>5, <1>6, <1>7 DEF Types, Tables

LEMMA InitTypes == Init => Types
<1> SUFFICES ASSUME Init PROVE Types
  OBVIOUS
<1>1. PICK old \in Legacy :
        \E start \in EnsureBundled([n \in Nodes |-> IF n = 1 THEN old.row ELSE NoRow],
                                   IF old.file THEN {old.row.slug} ELSE {}) :
          /\ nodes = start.table /\ disk = start.files
          /\ stripped = IF start.table[1].linked /\ ~old.file THEN {1} ELSE {}
  BY DEF Init
<1>2. old.row \in Row /\ old.file \in BOOLEAN /\ (old.file => old.row.slug \in Slugs)
  <2>1. CASE old = [row |-> NoRow, file |-> FALSE]
    BY <2>1, RowsSound
  <2>2. CASE old \in [row : [status : {"here"}, slug : Slugs, linked : BOOLEAN], file : BOOLEAN]
    BY <2>2 DEF Row
  <2> QED
    BY <2>1, <2>2 DEF Legacy
<1>3. nodes \in [Nodes -> Row] /\ disk \in SUBSET Slugs
  BY <1>1, <1>2, BundledSound, RowsSound
<1>4. 1 \in Nodes /\ stripped \in SUBSET Nodes
  BY <1>1, SkillsAssumption DEF Nodes
<1>5. thread \in [Handlers -> Sound]
  BY IdleSound DEF Init
<1>6. /\ allowed \in SUBSET Domains /\ saved \in SUBSET Domains /\ enforced \in SUBSET Domains
      /\ faults \in 0 .. MaxFaults /\ apart \in BOOLEAN
  <2>1. allowed = {} /\ saved = {} /\ enforced = {} /\ faults = 0 /\ apart = FALSE
    BY DEF Init
  <2>2. faults \in 0 .. MaxFaults
    BY <2>1, SkillsAssumption
  <2>3. apart \in BOOLEAN
    BY <2>1, Zenon
  <2> QED
    BY <2>1, <2>2, <2>3
<1> QED
  BY <1>3, <1>4, <1>5, <1>6 DEF Types, Tables

LEMMA TypesStep == Types /\ [Next]_vars => Types'
<1> SUFFICES ASSUME Types, [Next]_vars PROVE Types'
  OBVIOUS
<1>1. CASE UNCHANGED vars
  BY <1>1 DEF vars, lists, config, Types, Tables
<1> QED
  BY <1>1, InstallTypes, ListTypes, SkillTypes, RestartTypes DEF Next

\* Every variable keeps its type: in particular a goroutine that is to write a file or a
\* node always knows which.
THEOREM TypeCorrect == Spec => []TypeOK
  BY InitTypes, TypesStep, TypesImply, PTL DEF Spec

-----------------------------------------------------------------------------
(* The lists of domains agree.                                             *)

\* Goroutines between their change of the lists, or their reading, and their last write.
Updaters == {t \in Handlers : thread[t].at \in {"enforce", "save"}}

\* Unless the lists were set apart, one goroutine at most updates them; what it is still
\* to write is what the other two copies have.
ListInv ==
  \/ apart
  \/ /\ Updaters = {} => allowed = saved /\ saved = enforced
     /\ \A t, x \in Updaters : t = x
     /\ \A t \in Updaters :
          /\ thread[t].at = "enforce" => allowed = thread[t].domains /\ saved = thread[t].domains
          /\ thread[t].at = "save" => enforced = thread[t].domains

\* Nobody who updates the lists takes the step, and nobody begins to.
ListsRest ==
  /\ UNCHANGED <<allowed, saved, enforced, apart>>
  /\ \A x \in Handlers :
       /\ (thread'[x].at \in {"enforce", "save"}) <=> (thread[x].at \in {"enforce", "save"})
       /\ thread[x].at \in {"enforce", "save"} =>
            thread'[x].at = thread[x].at /\ thread'[x].domains = thread[x].domains

LEMMA ListsUndisturbed ==
  ASSUME ListInv, ListsRest
  PROVE  ListInv'
<1>1. Updaters' = Updaters
  BY DEF Updaters, ListsRest
<1>2. \A t \in Updaters : thread'[t].at = thread[t].at /\ thread'[t].domains = thread[t].domains
  BY DEF Updaters, ListsRest
<1> QED
  BY <1>1, <1>2 DEF ListInv, ListsRest

\* A goroutine that does not update the lists moves on, and still does not.
LEMMA OneRests ==
  ASSUME NEW t \in Handlers, UNCHANGED <<allowed, saved, enforced, apart>>,
         thread[t].at \notin {"enforce", "save"}, thread'[t].at \notin {"enforce", "save"},
         \A x \in Handlers \ {t} : thread'[x] = thread[x]
  PROVE  ListsRest
BY DEF ListsRest

LEMMA SetLemma ==
  ASSUME Types, NEW t \in Handlers, NEW x, thread' = [thread EXCEPT ![t] = x]
  PROVE  thread'[t] = x /\ \A y \in Handlers \ {t} : thread'[y] = thread[y]
BY DEF Types

LEMMA GoLemma ==
  ASSUME Types, NEW t \in Handlers, NEW place \in Places, Go(t, place)
  PROVE  /\ thread'[t] = [thread[t] EXCEPT !.at = place]
         /\ thread'[t].at = place /\ \A x \in Handlers \ {t} : thread'[x] = thread[x]
<1>1. thread[t] \in Thread
  BY DEF Types, Sound
<1>2. thread'[t] = [thread[t] EXCEPT !.at = place]
  BY DEF Go, Types
<1> QED
  BY <1>1, <1>2 DEF Go, Types, Thread

LEMMA EndsLemma ==
  ASSUME Types, NEW t \in Handlers, Ends(t)
  PROVE  /\ thread'[t] = Idle /\ thread'[t].at = "idle"
         /\ \A x \in Handlers \ {t} : thread'[x] = thread[x]
<1>1. thread'[t] = Idle
  BY DEF Ends, Types
<1> QED
  BY <1>1, IdleSound DEF Ends, Types

LEMMA BeginsLemma ==
  ASSUME Types, NEW t \in Handlers, NEW s, NEW place \in Places, Begins(t, place, s)
  PROVE  /\ thread[t].at = "idle" /\ thread'[t].at = place /\ thread'[t].slug = s
         /\ \A x \in Handlers \ {t} : thread'[x] = thread[x]
<1> DEFINE x == [Idle EXCEPT !.at = place, !.slug = s]
<1>1. x.at = place /\ x.slug = s
  BY DEF Idle
<1>2. thread' = [thread EXCEPT ![t] = x]
  BY DEF Begins
<1> HIDE DEF x
<1> QED
  BY <1>1, <1>2, SetLemma, IdleSound DEF Begins

LEMMA MergesLemma ==
  ASSUME Types, NEW t \in Handlers, Merges(t)
  PROVE  thread'[t].at = "merge" /\ \A x \in Handlers \ {t} : thread'[x] = thread[x]
<1> DEFINE x == [Idle EXCEPT !.at = "merge", !.domains = Mentions[thread[t].slug]]
<1>1. x.at = "merge"
  BY DEF Idle
<1>2. thread' = [thread EXCEPT ![t] = x]
  BY DEF Merges
<1> HIDE DEF x
<1> QED
  BY <1>1, <1>2, SetLemma

LEMMA GetNodeLemma ==
  ASSUME Types, NEW t \in Handlers, NEW n \in Nodes, NEW place \in {"remove", "update"},
         GetNode(t, n, place)
  PROVE  /\ thread[t].at = "idle" /\ thread'[t].at = place /\ thread'[t].node = n
         /\ thread'[t].slug = nodes[n].slug /\ thread'[t].linked = nodes[n].linked
         /\ \A x \in Handlers \ {t} : thread'[x] = thread[x]
<1> DEFINE x == [Idle EXCEPT !.at = place, !.slug = nodes[n].slug, !.node = n, !.linked = nodes[n].linked]
<1>1. x.at = place /\ x.node = n /\ x.slug = nodes[n].slug /\ x.linked = nodes[n].linked
  BY DEF Idle
<1>2. thread' = [thread EXCEPT ![t] = x]
  BY DEF GetNode
<1> HIDE DEF x
<1> QED
  BY <1>1, <1>2, SetLemma, IdleSound DEF GetNode

LEMMA InstallRests ==
  ASSUME Types, NEW t \in Handlers, InstallStep(t)
  PROVE  ListsRest
<1>1. thread[t] = Idle \/ thread[t].at \in OfSkill
  BY DEF InstallStep, handleInstallSkill, Install, installSkill, handleImportSkill, createSkill,
     CreateSkill, Begins, DownloadSkill, Gate, FindNode, WriteFile, CreateNode, OfSkill
<1>2. \/ Ends(t) \/ Merges(t)
      \/ \E place \in OfSkill : Go(t, place) \/ \E s \in Slugs : Begins(t, place, s)
  BY DEF InstallStep, handleInstallSkill, Install, installSkill, handleImportSkill, createSkill,
     CreateSkill, DownloadSkill, Gate, FindNode, WriteFile, CreateNode, InstallFromContent, OfSkill
<1>3. /\ thread'[t].at \in OfSkill \cup {"idle", "merge"}
      /\ \A x \in Handlers \ {t} : thread'[x] = thread[x]
  <2>1. CASE Ends(t) \/ Merges(t)
    BY <2>1, EndsLemma, MergesLemma
  <2>2. ASSUME NEW place \in OfSkill, Go(t, place) \/ \E s \in Slugs : Begins(t, place, s)
        PROVE  thread'[t].at = place /\ \A x \in Handlers \ {t} : thread'[x] = thread[x]
    <3>1. place \in Places
      BY DEF Places
    <3>2. CASE Go(t, place)
      BY <3>1, <3>2, GoLemma
    <3>3. ASSUME NEW s \in Slugs, Begins(t, place, s)
          PROVE  thread'[t].at = place /\ \A x \in Handlers \ {t} : thread'[x] = thread[x]
      BY <3>1, <3>3, BeginsLemma
    <3> QED
      BY <2>2, <3>2, <3>3
  <2> QED
    BY <1>2, <2>1, <2>2
<1>4. UNCHANGED <<allowed, saved, enforced, apart>>
  BY DEF InstallStep, handleInstallSkill, Install, installSkill, handleImportSkill, createSkill,
     CreateSkill, DownloadSkill, Gate, FindNode, WriteFile, CreateNode, lists, config
<1> QED
  BY <1>1, <1>3, <1>4, OneRests, IdleSound DEF OfSkill

LEMMA SkillRests ==
  ASSUME Types, NEW t \in Handlers, SkillStep(t)
  PROVE  ListsRest
<1>0. UNCHANGED <<allowed, saved, enforced, apart>>
  BY DEF SkillStep, Uninstall, Relink, readSkill, ReadSkill, handleUpdateSkill, updateSkill, UpdateSkill,
     RemoveAll, DeleteNode, RewriteFile, UpdateNode, handleListSkills, Search, listInstalledSkills,
     SkillSummaries, List, lists, config
<1>1. ASSUME NEW n \in Nodes, Uninstall(t, n) \/ handleUpdateSkill(t, n) \/ updateSkill(t, n)
      PROVE  ListsRest
  <2>1. \E place \in {"remove", "update"} : GetNode(t, n, place)
    BY <1>1 DEF Uninstall, handleUpdateSkill, updateSkill, UpdateSkill
  <2>2. /\ thread[t].at = "idle" /\ thread'[t].at \in {"remove", "update"}
        /\ \A x \in Handlers \ {t} : thread'[x] = thread[x]
    BY <2>1, GetNodeLemma
  <2> QED
    BY <1>0, <2>2, OneRests
<1>2. ASSUME NEW n \in Nodes, readSkill(t, n) PROVE ListsRest
  <2> DEFINE x == [Idle EXCEPT !.at = "merge", !.domains = Mentions[nodes[n].slug]]
  <2>1. x.at = "merge" /\ thread' = [thread EXCEPT ![t] = x] /\ thread[t].at = "idle"
    BY <1>2, IdleSound DEF readSkill, ReadSkill, Idle
  <2> HIDE DEF x
  <2> QED
    BY <1>0, <2>1, SetLemma, OneRests
<1>3. ASSUME NEW n \in Nodes, Relink(t, n) PROVE ListsRest
  <2> DEFINE rest == thread[t].todo \ {n}
             x == [thread[t] EXCEPT !.todo = rest]
  <2>1. thread[t].at = "relink" /\ thread[t] \in Thread
    BY <1>3 DEF Relink, Types, Sound
  <2>2. x.at = "relink"
    BY <2>1 DEF Thread
  <2>3. thread' = [thread EXCEPT ![t] = Idle] \/ thread' = [thread EXCEPT ![t] = x]
    BY <1>3 DEF Relink
  <2> HIDE DEF x
  <2> QED
    BY <1>0, <2>1, <2>2, <2>3, SetLemma, IdleSound, OneRests
<1>4. ASSUME NEW ok \in BOOLEAN, RemoveAll(t, ok) PROVE ListsRest
  <2>1. thread[t].at = "remove" /\ thread'[t] = [thread[t] EXCEPT !.at = "drop"]
    BY <1>4 DEF RemoveAll
  <2>2. \A x \in Handlers : thread[x] \in Thread
    BY DEF Types, Sound
  <2>3. thread'[t].at = "drop"
    BY <2>1, <2>2 DEF Thread
  <2>4. \A x \in Handlers \ {t} : \E b : thread'[x] = [thread[x] EXCEPT !.robbed = b]
    BY <1>4 DEF RemoveAll
  <2>5. \A x \in Handlers \ {t} : thread'[x].at = thread[x].at /\ thread'[x].domains = thread[x].domains
    BY <2>2, <2>4 DEF Thread
  <2> QED
    BY <1>0, <2>1, <2>3, <2>5 DEF ListsRest
<1>5. ASSUME NEW ok \in BOOLEAN, NEW text \in BOOLEAN,
             DeleteNode(t, ok) \/ RewriteFile(t, ok) \/ UpdateNode(t, text)
      PROVE  ListsRest
  <2>1. thread[t].at \in {"drop", "rewrite", "update"}
    BY <1>5 DEF DeleteNode, RewriteFile, UpdateNode
  <2>2. Ends(t) \/ Merges(t) \/ Go(t, "rewrite")
    BY <1>5 DEF DeleteNode, RewriteFile, UpdateNode
  <2>3. /\ thread'[t].at \in {"idle", "merge", "rewrite"}
        /\ \A x \in Handlers \ {t} : thread'[x] = thread[x]
    BY <2>2, EndsLemma, MergesLemma, GoLemma DEF Places, OfSkill
  <2> QED
    BY <1>0, <2>1, <2>3, OneRests
<1>6. CASE List(t)
  <2>1. PICK first : thread' = [thread EXCEPT ![t] = [Idle EXCEPT !.at = "relink", !.todo = first]]
    BY <1>6 DEF List
  <2> DEFINE x == [Idle EXCEPT !.at = "relink", !.todo = first]
  <2>2. x.at = "relink" /\ thread[t].at = "idle"
    BY <1>6, IdleSound DEF Idle, List
  <2>3. thread' = [thread EXCEPT ![t] = x]
    BY <2>1
  <2> HIDE DEF x
  <2> QED
    BY <1>0, <2>2, <2>3, SetLemma, OneRests
<1> QED
  BY <1>1, <1>2, <1>3, <1>4, <1>5, <1>6
  DEF SkillStep, handleListSkills, Search, listInstalledSkills, SkillSummaries

LEMMA ListLists ==
  ASSUME Types, ListInv, NEW t \in Handlers, ListStep(t)
  PROVE  ListInv'
<1>1. Updating(t) = {} => Updaters \subseteq {t}
  BY DEF Updating, Updaters
<1>2. ASSUME NEW d \in Domains, AllowDomain(t, d) PROVE ListInv'
  <2> DEFINE x == [Idle EXCEPT !.at = "merge", !.domains = {d}]
  <2>1. x.at = "merge" /\ thread' = [thread EXCEPT ![t] = x] /\ thread[t].at = "idle"
    BY <1>2, IdleSound DEF AllowDomain, Idle
  <2>2. UNCHANGED <<allowed, saved, enforced, apart>>
    BY <1>2 DEF AllowDomain, lists, config
  <2> HIDE DEF x
  <2> QED
    BY <2>1, <2>2, SetLemma, OneRests, ListsUndisturbed
<1>3. ASSUME NEW ds, NEW x, x.at = "save", x.domains = ds, thread' = [thread EXCEPT ![t] = x],
             enforced' = ds, ~apart' => Updating(t) = {}, thread[t].at = "idle"
      PROVE  ListInv'
  <2>1. thread'[t] = x /\ \A y \in Handlers \ {t} : thread'[y] = thread[y]
    BY <1>3, SetLemma
  <2>2. ~apart' => Updaters' = {t}
    BY <1>1, <1>3, <2>1 DEF Updaters
  <2> QED
    BY <1>3, <2>1, <2>2 DEF ListInv
<1>4. ASSUME NEW ds \in SUBSET Domains, UpdateSettings(t, ds) PROVE ListInv'
  <2> DEFINE x == [Idle EXCEPT !.at = "save", !.domains = ds]
  <2>1. /\ x.at = "save" /\ x.domains = ds /\ thread' = [thread EXCEPT ![t] = x]
        /\ thread[t].at = "idle" /\ enforced' = ds /\ (~apart' => Updating(t) = {})
    BY <1>4, IdleSound DEF UpdateSettings, Idle
  <2> HIDE DEF x
  <2> QED
    BY <1>3, <2>1
<1>5. CASE ReadConfig(t)
  <2> DEFINE x == [Idle EXCEPT !.at = "save", !.domains = allowed]
  <2>1. /\ x.at = "save" /\ x.domains = allowed /\ thread' = [thread EXCEPT ![t] = x]
        /\ thread[t].at = "idle" /\ enforced' = enforced /\ (~apart' => ~apart /\ Updating(t) = {})
    BY <1>5, IdleSound DEF ReadConfig, Idle
  <2>2. ~apart' => enforced' = allowed
    <3>1. thread[t].at # "enforce" /\ thread[t].at # "save"
      BY <2>1
    <3>2. ~apart' => Updaters = {}
      BY <1>1, <2>1, <3>1 DEF Updaters
    <3> QED
      BY <2>1, <3>2 DEF ListInv
  <2> HIDE DEF x
  <2>3. thread'[t] = x /\ \A y \in Handlers \ {t} : thread'[y] = thread[y]
    BY <2>1, SetLemma
  <2>4. ~apart' => Updaters' = {t}
    BY <1>1, <2>1, <2>3 DEF Updaters
  <2> QED
    BY <2>1, <2>2, <2>3, <2>4 DEF ListInv
<1>6. CASE SetAllowedDomains(t)
  <2>1. /\ thread[t].at = "enforce" /\ enforced' = thread[t].domains /\ Ends(t)
        /\ UNCHANGED <<allowed, saved, apart>>
    BY <1>6 DEF SetAllowedDomains, config
  <2>2. thread'[t].at = "idle" /\ \A y \in Handlers \ {t} : thread'[y] = thread[y]
    BY <2>1, EndsLemma
  <2>3. t \in Updaters
    BY <2>1 DEF Updaters
  <2>4. ~apart => Updaters' = {} /\ allowed = thread[t].domains /\ saved = thread[t].domains
    BY <2>1, <2>2, <2>3 DEF ListInv, Updaters
  <2> QED
    BY <2>1, <2>4 DEF ListInv
<1>7. ASSUME NEW ok \in BOOLEAN, Merge(t, ok) PROVE ListInv'
  <2> DEFINE ds == thread[t].domains
  <2>1. /\ thread[t].at = "merge" /\ allowed' = allowed \cup ds /\ enforced' = enforced
        /\ saved' = IF ~(ds \subseteq allowed) /\ ok THEN allowed' ELSE saved
        /\ ~apart' => /\ ok /\ Updating(t) = {}
                      /\ ds \subseteq allowed => ~apart
        /\ IF ok /\ ds # {}
           THEN thread' = [thread EXCEPT ![t].at = "enforce", ![t].domains = allowed']
           ELSE Ends(t)
    BY <1>7 DEF Merge
  <2>2. ~apart' => Updaters = {}
    BY <1>1, <2>1 DEF Updaters
  <2>3. ~apart' => saved' = allowed'
    BY <2>1, <2>2 DEF ListInv
  <2>4. CASE ok /\ ds # {}
    <3>1. thread[t] \in Thread
      BY DEF Types, Sound
    <3>2. /\ thread'[t].at = "enforce" /\ thread'[t].domains = allowed'
          /\ \A y \in Handlers \ {t} : thread'[y] = thread[y]
      BY <2>1, <2>4, <3>1 DEF Types, Thread
    <3>3. ~apart' => Updaters' = {t}
      BY <2>2, <3>2 DEF Updaters
    <3> QED
      BY <2>3, <3>2, <3>3 DEF ListInv
  <2>5. CASE ~(ok /\ ds # {})
    <3>1. thread'[t].at = "idle" /\ \A y \in Handlers \ {t} : thread'[y] = thread[y]
      BY <2>1, <2>5, EndsLemma
    <3>2. ~apart' => Updaters' = {}
      BY <2>2, <3>1 DEF Updaters
    <3>3. ~apart' => ds = {} /\ saved' = enforced'
      BY <2>1, <2>2, <2>5 DEF ListInv
    <3> QED
      BY <2>3, <3>2, <3>3 DEF ListInv
  <2> QED
    BY <2>4, <2>5
<1>8. ASSUME NEW ok \in BOOLEAN, Save(t, ok) PROVE ListInv'
  <2>1. /\ thread[t].at = "save" /\ enforced' = enforced /\ Ends(t)
        /\ ok => allowed' = thread[t].domains /\ saved' = thread[t].domains
        /\ ~apart' => ok /\ ~apart
    BY <1>8 DEF Save
  <2>2. thread'[t].at = "idle" /\ \A y \in Handlers \ {t} : thread'[y] = thread[y]
    BY <2>1, EndsLemma
  <2>3. t \in Updaters
    BY <2>1 DEF Updaters
  <2>4. ~apart => Updaters' = {} /\ enforced = thread[t].domains
    BY <2>1, <2>2, <2>3 DEF ListInv, Updaters
  <2> QED
    BY <2>1, <2>4 DEF ListInv
<1> QED
  BY <1>2, <1>4, <1>5, <1>6, <1>7, <1>8 DEF ListStep

LEMMA ListsStep == Types /\ ListInv /\ [Next]_vars => ListInv'
<1> SUFFICES ASSUME Types, ListInv, [Next]_vars PROVE ListInv'
  OBVIOUS
<1>1. CASE UNCHANGED vars
  BY <1>1, ListsUndisturbed DEF vars, lists, config, ListsRest
<1>2. CASE Restart
  <2>1. Updaters' = {}
    BY <1>2, IdleSound DEF Restart, Updaters
  <2>2. allowed' = saved' /\ enforced' = saved'
    BY <1>2 DEF Restart
  <2> QED
    BY <2>1, <2>2 DEF ListInv
<1>3. ASSUME NEW t \in Handlers, InstallStep(t) \/ ListStep(t) \/ SkillStep(t) PROVE ListInv'
  BY <1>3, InstallRests, SkillRests, ListsUndisturbed, ListLists
<1> QED
  BY <1>1, <1>2, <1>3 DEF Next

\* However installations, readings of skills, settings and restarts interleave, what the
\* executor enforces is what is configured and saved, unless an update goes on, or one
\* failed or overlapped another since the last that was alone.
THEOREM ListsAgree == Spec => []AllowListsAgree
<1>1. Init => ListInv
  <2> SUFFICES ASSUME Init PROVE ListInv
    OBVIOUS
  <2>1. Updaters = {} /\ allowed = saved /\ saved = enforced
    BY IdleSound DEF Init, Updaters
  <2> QED
    BY <2>1 DEF ListInv
<1>2. ListInv => AllowListsAgree
  BY DEF ListInv, AllowListsAgree, Updaters
<1> QED
  BY <1>1, <1>2, InitTypes, TypesStep, ListsStep, PTL DEF Spec

-----------------------------------------------------------------------------
(* A node has its file.                                                    *)

Dropping(n) == \E t \in Handlers : thread[t].at = "drop" /\ thread[t].node = n

\* The node's file is there, or it was left without, or it is being uninstalled.
Has(n) == nodes[n].slug \in disk \/ n \in stripped \/ Dropping(n)

\* A goroutine is to write that the node has its file.
Links(t, n) ==
  \/ thread[t].at = "update" /\ thread[t].linked /\ thread[t].node = n
  \/ thread[t].at = "relink" /\ n \in thread[t].todo

\* What a goroutine goes by when it writes a node's path.
Knows(t, n) ==
  /\ thread[t].at = "update" /\ thread[t].node = n =>
       /\ nodes[n].status # "none"
       /\ Here(n) => nodes[n].slug = thread[t].slug
  /\ Links(t, n) => /\ nodes[n].status # "none"
                    /\ Here(n) => Has(n) \/ thread[t].robbed

Creates(t) == thread[t].at = "create" => thread[t].slug \in disk \/ thread[t].robbed

PathInv ==
  /\ \A n \in Nodes : Here(n) /\ nodes[n].linked => Has(n)
  /\ \A t \in Handlers : Creates(t)
  /\ \A t \in Handlers, n \in Nodes : Knows(t, n)

\* No node comes to lose its file, and no other goroutine its reasons.
NoneLoses(t) ==
  /\ \A x \in Handlers \ {t} : thread'[x] = thread[x]
  /\ \A n \in Nodes :
       /\ nodes[n].status # "none" => nodes'[n].status # "none"
       /\ nodes'[n].status = "here" /\ nodes[n].status # "none" =>
            Here(n) /\ nodes'[n].slug = nodes[n].slug
       /\ Has(n) /\ nodes'[n].status = "here" => Has(n)'
  /\ disk \subseteq disk'

LEMMA OthersKnow ==
  ASSUME PathInv, NEW t \in Handlers, NoneLoses(t), NEW x \in Handlers \ {t}
  PROVE  Creates(x)' /\ \A n \in Nodes : Knows(x, n)'
<1>1. Creates(x)'
  BY DEF NoneLoses, PathInv, Creates
<1>2. ASSUME NEW n \in Nodes PROVE Knows(x, n)'
  <2>1. Knows(x, n) /\ thread'[x] = thread[x] /\ (Links(x, n)' <=> Links(x, n))
    BY DEF NoneLoses, PathInv, Links
  <2> QED
    BY <2>1 DEF Knows, NoneLoses, Here
<1> QED
  BY <1>1, <1>2

LEMMA PathsKept ==
  ASSUME PathInv, NEW t \in Handlers, NoneLoses(t), Creates(t)', \A n \in Nodes : Knows(t, n)',
         \A n \in Nodes : nodes'[n].status = "here" /\ nodes'[n].linked => Has(n)'
  PROVE  PathInv'
BY OthersKnow DEF PathInv, Here

\* A goroutine moves on; it links no node, and neither table nor files change.
LEMMA PathsRest ==
  ASSUME PathInv, NEW t \in Handlers, UNCHANGED <<nodes, disk, stripped>>,
         \A x \in Handlers \ {t} : thread'[x] = thread[x],
         thread[t].at # "drop", thread'[t].at \notin {"create", "update", "relink"}
  PROVE  PathInv'
<1>1. ASSUME NEW n \in Nodes PROVE Has(n) => Has(n)'
  BY <1>1 DEF Has, Dropping
<1>2. NoneLoses(t)
  BY <1>1 DEF NoneLoses, Here
<1>3. Creates(t)' /\ \A n \in Nodes : Knows(t, n)'
  BY DEF Creates, Knows, Links
<1>4. \A n \in Nodes : nodes'[n].status = "here" /\ nodes'[n].linked => Has(n)'
  BY <1>1 DEF PathInv, Here
<1> QED
  BY <1>2, <1>3, <1>4, PathsKept

\* A file is written: the nodes of its path have it.
LEMMA WrittenLemma ==
  ASSUME PathInv, NEW t \in Handlers, Written(t), UNCHANGED nodes,
         \A x \in Handlers \ {t} : thread'[x] = thread[x], thread[t].at # "drop"
  PROVE  /\ NoneLoses(t)
         /\ \A n \in Nodes : nodes'[n].status = "here" /\ nodes'[n].linked => Has(n)'
<1>1. ASSUME NEW n \in Nodes, Dropping(n) PROVE Dropping(n)'
  BY <1>1 DEF Dropping
<1>2. ASSUME NEW n \in Nodes, Here(n), Has(n), nodes[n].linked PROVE Has(n)'
  BY <1>1, <1>2 DEF Has, Written, At
<1>3. ASSUME NEW n \in Nodes, Has(n), ~nodes[n].linked PROVE Has(n)'
  BY <1>1, <1>3 DEF Has, Written, At
<1>4. NoneLoses(t)
  BY <1>2, <1>3 DEF NoneLoses, Here, Written
<1> QED
  BY <1>2, <1>4 DEF PathInv, Here

LEMMA InstallPaths ==
  ASSUME Types, PathInv, NEW t \in Handlers, InstallStep(t)
  PROVE  PathInv'
<1>1. ASSUME NEW s \in Slugs,
             \/ handleInstallSkill(t, s) \/ installSkill(t, s)
             \/ handleImportSkill(t, s) \/ createSkill(t, s)
      PROVE  PathInv'
  <2>1. \E place \in {"download", "fetch", "confirm"} : Begins(t, place, s)
    BY <1>1 DEF handleInstallSkill, Install, installSkill, handleImportSkill, createSkill, CreateSkill
  <2>2. UNCHANGED <<nodes, disk, stripped>>
    BY <1>1 DEF handleInstallSkill, Install, installSkill, handleImportSkill, createSkill, CreateSkill
  <2>3. /\ thread[t].at = "idle" /\ thread'[t].at \in {"download", "fetch", "confirm"}
        /\ \A x \in Handlers \ {t} : thread'[x] = thread[x]
    BY <2>1, BeginsLemma DEF Places, OfSkill
  <2> QED
    BY <2>2, <2>3, PathsRest
<1>2. ASSUME NEW ok \in BOOLEAN, NEW suspicious \in BOOLEAN, NEW force \in BOOLEAN,
             DownloadSkill(t, ok) \/ Gate(t, suspicious, force) \/ FindNode(t)
      PROVE  PathInv'
  <2>1. /\ UNCHANGED <<nodes, disk, stripped>> /\ thread[t].at # "drop"
        /\ Ends(t) \/ \E place \in {"gate", "confirm", "write"} : Go(t, place)
    BY <1>2 DEF DownloadSkill, Gate, FindNode
  <2>2. /\ thread'[t].at \in {"idle", "gate", "confirm", "write"}
        /\ \A x \in Handlers \ {t} : thread'[x] = thread[x]
    BY <2>1, EndsLemma, GoLemma DEF Places, OfSkill
  <2> QED
    BY <2>1, <2>2, PathsRest
<1>3. ASSUME Ends(t), thread[t].at # "drop", UNCHANGED <<nodes, disk, stripped>> PROVE PathInv'
  BY <1>3, EndsLemma, PathsRest
<1>4. ASSUME NEW ok \in BOOLEAN, WriteFile(t, ok) PROVE PathInv'
  <2>1. CASE ~ok
    BY <1>3, <1>4, <2>1 DEF WriteFile
  <2>2. CASE ok
    <3>1. /\ Written(t) /\ Go(t, "create") /\ thread[t].at # "drop" /\ UNCHANGED nodes
          /\ disk' = disk \cup {thread[t].slug}
      BY <1>4, <2>2 DEF WriteFile, Written
    <3>2. thread[t] \in Thread
      BY DEF Types, Sound
    <3>3. /\ thread'[t].at = "create" /\ thread'[t].slug = thread[t].slug
          /\ \A x \in Handlers \ {t} : thread'[x] = thread[x]
      BY <3>1, <3>2, GoLemma DEF Places, OfSkill, Thread
    <3>4. Creates(t)' /\ \A n \in Nodes : Knows(t, n)'
      BY <3>1, <3>3 DEF Creates, Knows, Links
    <3> QED
      BY <3>1, <3>3, <3>4, WrittenLemma, PathsKept
  <2> QED
    BY <2>1, <2>2
<1>5. ASSUME NEW n \in Unused, thread[t].at = "create", InstallFromContent(t, n), UNCHANGED disk
      PROVE  PathInv'
  <2> DEFINE row == NewRow(thread[t].slug)
  <2>1. row.status = "here" /\ row.slug = thread[t].slug
    BY DEF NewRow
  <2>2. n \in Nodes /\ nodes[n].status = "none" /\ nodes' = [nodes EXCEPT ![n] = row]
    BY <1>5 DEF InstallFromContent, Unused
  <2> HIDE DEF row
  <2>3. nodes'[n] = row /\ \A m \in Nodes \ {n} : nodes'[m] = nodes[m]
    BY <2>2 DEF Types, Tables
  <2>4. stripped' = IF thread[t].robbed THEN stripped \cup {n} ELSE stripped
    BY <1>5 DEF InstallFromContent, Linked
  <2>5. thread'[t].at = "merge" /\ \A x \in Handlers \ {t} : thread'[x] = thread[x]
    BY <1>5, MergesLemma DEF InstallFromContent
  <2>6. Has(n)'
    BY <1>5, <2>1, <2>3, <2>4 DEF PathInv, Creates, Has
  <2>7. ASSUME NEW m \in Nodes \ {n}, Has(m) PROVE Has(m)'
    BY <1>5, <2>3, <2>4, <2>5, <2>7 DEF Has, Dropping
  <2>8. NoneLoses(t)
    BY <1>5, <2>1, <2>2, <2>3, <2>5, <2>6, <2>7 DEF NoneLoses, Here
  <2>9. \A m \in Nodes : nodes'[m].status = "here" /\ nodes'[m].linked => Has(m)'
    BY <2>3, <2>6, <2>7 DEF PathInv, Here
  <2>10. Creates(t)' /\ \A m \in Nodes : Knows(t, m)'
    BY <2>5 DEF Creates, Knows, Links
  <2> QED
    BY <2>8, <2>9, <2>10, PathsKept
<1>6. ASSUME NEW ok \in BOOLEAN, CreateNode(t, ok) PROVE PathInv'
  BY <1>3, <1>5, <1>6 DEF CreateNode
<1> QED
  BY <1>1, <1>2, <1>4, <1>6 DEF InstallStep

LEMMA ListPaths ==
  ASSUME Types, PathInv, NEW t \in Handlers, ListStep(t)
  PROVE  PathInv'
<1>1. UNCHANGED <<nodes, disk, stripped>> /\ (thread[t] = Idle \/ thread[t].at \in {"merge", "enforce", "save"})
  BY DEF ListStep, AllowDomain, UpdateSettings, ReadConfig, SetAllowedDomains, Merge, Save
<1>2. ASSUME NEW place \in {"merge", "save"}, NEW ds,
             thread' = [thread EXCEPT ![t] = [Idle EXCEPT !.at = place, !.domains = ds]]
      PROVE  thread'[t].at = place /\ \A x \in Handlers \ {t} : thread'[x] = thread[x]
  <2> DEFINE x == [Idle EXCEPT !.at = place, !.domains = ds]
  <2>1. x.at = place /\ thread' = [thread EXCEPT ![t] = x]
    BY <1>2 DEF Idle
  <2> HIDE DEF x
  <2> QED
    BY <2>1, SetLemma
<1>3. ASSUME thread' = [thread EXCEPT ![t].at = "enforce", ![t].domains = allowed']
      PROVE  thread'[t].at = "enforce" /\ \A x \in Handlers \ {t} : thread'[x] = thread[x]
  <2>1. thread[t] \in Thread
    BY DEF Types, Sound
  <2> QED
    BY <1>3, <2>1 DEF Types, Thread
<1>4. \/ Ends(t) \/ thread' = [thread EXCEPT ![t].at = "enforce", ![t].domains = allowed']
      \/ \E place \in {"merge", "save"}, ds \in SUBSET Domains :
           thread' = [thread EXCEPT ![t] = [Idle EXCEPT !.at = place, !.domains = ds]]
  <2>1. ASSUME NEW d \in Domains PROVE {d} \in SUBSET Domains
    OBVIOUS
  <2>2. allowed \in SUBSET Domains
    BY DEF Types, Tables
  <2> QED
    BY <2>1, <2>2 DEF ListStep, AllowDomain, UpdateSettings, ReadConfig, SetAllowedDomains, Merge, Save
<1>5. /\ thread'[t].at \in {"idle", "enforce", "merge", "save"}
      /\ \A x \in Handlers \ {t} : thread'[x] = thread[x]
  BY <1>2, <1>3, <1>4, EndsLemma
<1> QED
  BY <1>1, <1>5, PathsRest, IdleSound

\* The directory is removed: who had the file is left without, or is told so.
LEMMA RemovePaths ==
  ASSUME Types, PathInv, NEW t \in Handlers, NEW ok \in BOOLEAN, RemoveAll(t, ok)
  PROVE  PathInv'
<1> DEFINE inside == Within[thread[t].slug]
           robs == ok /\ thread[t].linked
           works(x) == thread[x].slug \in inside \/ \E n \in thread[x].todo : nodes[n].slug \in inside
           bare == UNION {At(s) : s \in inside}
           robbed(x) == thread[x].robbed \/ (robs /\ works(x))
<1>1. PICK d \in SUBSET Slugs, m \in Nodes :
        /\ d = (IF robs THEN inside ELSE {}) /\ m = thread[t].node
        /\ disk' = disk \ d /\ UNCHANGED nodes /\ thread[t].at = "remove"
        /\ stripped' = IF robs THEN stripped \cup (bare \ {m}) ELSE stripped
  <2>1. thread[t].at = "remove" /\ thread[t].node \in Nodes /\ inside \in SUBSET Slugs
    BY SkillsAssumption DEF RemoveAll, Types, Sound, OfSkill, OfNode
  <2>2. /\ disk' = disk \ (IF robs THEN inside ELSE {}) /\ UNCHANGED nodes
        /\ stripped' = IF robs THEN stripped \cup (bare \ {thread[t].node}) ELSE stripped
    BY DEF RemoveAll
  <2>3. (IF robs THEN inside ELSE {}) \in SUBSET Slugs
    BY <2>1
  <2> HIDE DEF inside, robs, bare
  <2> QED
    BY <2>1, <2>2, <2>3
<1>2. \A x \in Handlers : thread[x] \in Thread
  BY DEF Types, Sound
<1>3. thread'[t].at = "drop" /\ thread'[t].node = m
  <2>1. thread'[t] = [thread[t] EXCEPT !.at = "drop"]
    BY DEF RemoveAll
  <2> QED
    BY <1>1, <1>2, <2>1 DEF Thread
<1>4. ASSUME NEW x \in Handlers \ {t}
      PROVE  /\ thread'[x].at = thread[x].at /\ thread'[x].slug = thread[x].slug
             /\ thread'[x].node = thread[x].node /\ thread'[x].linked = thread[x].linked
             /\ thread'[x].todo = thread[x].todo
             /\ thread[x].robbed \/ (robs /\ works(x)) => thread'[x].robbed
  <2>1. thread'[x] = [thread[x] EXCEPT !.robbed = robbed(x)]
    BY DEF RemoveAll
  <2> HIDE DEF robbed
  <2>2. /\ thread'[x].at = thread[x].at /\ thread'[x].slug = thread[x].slug
        /\ thread'[x].node = thread[x].node /\ thread'[x].linked = thread[x].linked
        /\ thread'[x].todo = thread[x].todo /\ thread'[x].robbed = robbed(x)
    BY <1>2, <2>1 DEF Thread
  <2> QED
    BY <2>2 DEF robbed
<1>5. ASSUME NEW n \in Nodes PROVE Dropping(n) => Dropping(n)'
  BY <1>1, <1>4 DEF Dropping
<1>6. Dropping(m)'
  BY <1>3 DEF Dropping
<1>7. ASSUME NEW n \in Nodes, Has(n), ~(robs /\ nodes[n].slug \in inside) PROVE Has(n)'
  BY <1>1, <1>5, <1>7 DEF Has
<1>8. ASSUME NEW n \in Nodes, Here(n), nodes[n].linked PROVE Has(n)'
  <2>1. CASE robs /\ nodes[n].slug \in inside
    <3>1. n \in bare
      BY <1>8, <2>1 DEF At
    <3> QED
      BY <1>1, <1>6, <2>1, <3>1 DEF Has
  <2>2. CASE ~(robs /\ nodes[n].slug \in inside)
    BY <1>7, <1>8, <2>2 DEF PathInv
  <2> QED
    BY <2>1, <2>2
<1>9. ASSUME NEW x \in Handlers PROVE Creates(x)'
  <2>1. CASE x = t
    BY <1>3, <2>1 DEF Creates
  <2>2. CASE x # t
    BY <1>1, <1>4, <2>2 DEF PathInv, Creates
  <2> QED
    BY <2>1, <2>2
<1>10. ASSUME NEW x \in Handlers, NEW n \in Nodes PROVE Knows(x, n)'
  <2>1. CASE x = t
    BY <1>3, <2>1 DEF Knows, Links
  <2>2. CASE x # t
    <3>1. Knows(x, n) /\ (Links(x, n)' <=> Links(x, n)) /\ (Here(n)' <=> Here(n)) /\ nodes' = nodes
      BY <1>1, <1>4, <2>2 DEF PathInv, Links, Here
    <3>2. ASSUME Links(x, n), Here(n) PROVE Has(n)' \/ thread'[x].robbed
      <4>1. CASE robs /\ nodes[n].slug \in inside
        <5>1. works(x)
          BY <3>1, <3>2, <4>1 DEF Knows, Links
        <5> QED
          BY <1>4, <2>2, <4>1, <5>1
      <4>2. CASE ~(robs /\ nodes[n].slug \in inside)
        BY <1>4, <1>7, <2>2, <3>1, <3>2, <4>2 DEF Knows
      <4> QED
        BY <4>1, <4>2
    <3> QED
      BY <1>4, <2>2, <3>1, <3>2 DEF Knows
  <2> QED
    BY <2>1, <2>2
<1>11. \A n \in Nodes : (Here(n) /\ nodes[n].linked => Has(n))'
  BY <1>1, <1>8 DEF Here
<1> QED
  BY <1>9, <1>10, <1>11 DEF PathInv

\* A node that a goroutine has seen is given its path.
LEMMA LinkedPaths ==
  ASSUME Types, PathInv, NEW t \in Handlers, NEW n \in Nodes, NEW l \in BOOLEAN,
         nodes' = IF Here(n) THEN [nodes EXCEPT ![n].linked = l] ELSE nodes,
         l => Links(t, n), UNCHANGED disk,
         IF l THEN Linked(t, n) ELSE UNCHANGED stripped, thread[t].at # "drop",
         \A x \in Handlers \ {t} : thread'[x] = thread[x]
  PROVE  /\ NoneLoses(t)
         /\ \A m \in Nodes : nodes'[m].status = "here" /\ nodes'[m].linked => Has(m)'
<1>1. ASSUME Here(n) PROVE nodes'[n] = [nodes[n] EXCEPT !.linked = l] /\ nodes'[n].linked = l
  BY <1>1, HereRow DEF Types, Tables
<1>2. \A m \in Nodes : nodes'[m].status = nodes[m].status /\ nodes'[m].slug = nodes[m].slug
  BY HereRow DEF Types, Tables
<1>3. \A m \in Nodes \ {n} : nodes'[m] = nodes[m]
  BY DEF Types, Tables
<1>4. ASSUME NEW m \in Nodes, Has(m) PROVE Has(m)'
  BY <1>2, <1>4 DEF Has, Dropping, Linked
<1>5. NoneLoses(t)
  BY <1>2, <1>4 DEF NoneLoses, Here
<1>6. ASSUME Here(n), l PROVE Has(n)'
  <2>1. Has(n) \/ thread[t].robbed
    BY <1>6 DEF PathInv, Knows
  <2>2. thread[t].robbed => n \in stripped'
    BY <1>6 DEF Linked
  <2> QED
    BY <1>4, <2>1, <2>2 DEF Has
<1>7. ASSUME NEW m \in Nodes, nodes'[m].status = "here", nodes'[m].linked PROVE Has(m)'
  BY <1>1, <1>2, <1>3, <1>4, <1>6, <1>7 DEF PathInv, Here
<1> QED
  BY <1>5, <1>7

LEMMA SkillPaths ==
  ASSUME Types, PathInv, NEW t \in Handlers, SkillStep(t)
  PROVE  PathInv'
<1>1. ASSUME NEW n \in Nodes, Uninstall(t, n) PROVE PathInv'
  BY <1>1, GetNodeLemma, PathsRest DEF Uninstall
<1>2. ASSUME NEW n \in Nodes, handleUpdateSkill(t, n) \/ updateSkill(t, n) PROVE PathInv'
  <2>1. GetNode(t, n, "update") /\ UNCHANGED <<nodes, disk, stripped>> /\ Here(n)
    BY <1>2 DEF handleUpdateSkill, updateSkill, UpdateSkill, GetNode
  <2>2. /\ thread[t].at = "idle" /\ thread'[t].at = "update" /\ thread'[t].node = n
        /\ thread'[t].slug = nodes[n].slug /\ thread'[t].linked = nodes[n].linked
        /\ \A x \in Handlers \ {t} : thread'[x] = thread[x]
    BY <2>1, GetNodeLemma
  <2>3. ASSUME NEW m \in Nodes PROVE Has(m) => Has(m)'
    BY <2>1, <2>2 DEF Has, Dropping
  <2>4. NoneLoses(t)
    BY <2>1, <2>2, <2>3 DEF NoneLoses, Here
  <2>5. Creates(t)' /\ \A m \in Nodes : Knows(t, m)'
    BY <2>1, <2>2, <2>3 DEF Creates, Knows, Links, PathInv, Here
  <2>6. \A m \in Nodes : nodes'[m].status = "here" /\ nodes'[m].linked => Has(m)'
    BY <2>1, <2>3 DEF PathInv, Here
  <2> QED
    BY <2>4, <2>5, <2>6, PathsKept
<1>3. ASSUME NEW n \in Nodes, readSkill(t, n) PROVE PathInv'
  <2> DEFINE x == [Idle EXCEPT !.at = "merge", !.domains = Mentions[nodes[n].slug]]
  <2>1. x.at = "merge" /\ thread' = [thread EXCEPT ![t] = x] /\ thread[t].at = "idle"
    BY <1>3, IdleSound DEF readSkill, ReadSkill, Idle
  <2> HIDE DEF x
  <2> QED
    BY <1>3, <2>1, SetLemma, PathsRest DEF readSkill, ReadSkill
<1>4. ASSUME NEW n \in Nodes, Relink(t, n) PROVE PathInv'
  <2> DEFINE rest == thread[t].todo \ {n}
             x == [thread[t] EXCEPT !.todo = rest]
  <2>1. thread[t].at = "relink" /\ thread[t] \in Thread /\ Links(t, n)
    BY <1>4 DEF Relink, Types, Sound, Links
  <2>2. x.at = "relink" /\ x.todo \subseteq thread[t].todo /\ x.robbed = thread[t].robbed
    BY <2>1 DEF Thread
  <2>3. thread' = [thread EXCEPT ![t] = Idle] \/ thread' = [thread EXCEPT ![t] = x]
    BY <1>4 DEF Relink
  <2> HIDE DEF x
  <2>4. /\ thread'[t] \in {Idle, x}
        /\ \A y \in Handlers \ {t} : thread'[y] = thread[y]
    BY <2>3, SetLemma
  <2>5. /\ NoneLoses(t)
        /\ \A m \in Nodes : nodes'[m].status = "here" /\ nodes'[m].linked => Has(m)'
    BY <1>4, <2>1, <2>4, LinkedPaths DEF Relink
  <2>6. ASSUME NEW m \in Nodes PROVE Knows(t, m)'
    <3>1. Links(t, m)' => Links(t, m) /\ thread'[t].robbed = thread[t].robbed
      BY <2>1, <2>2, <2>4, IdleSound DEF Links
    <3>2. Knows(t, m)
      BY DEF PathInv
    <3> QED
      BY <2>2, <2>4, <2>5, <3>1, <3>2, IdleSound DEF Knows, NoneLoses, Here
  <2>7. Creates(t)'
    BY <2>2, <2>4, IdleSound DEF Creates
  <2> QED
    BY <2>5, <2>6, <2>7, PathsKept
<1>5. ASSUME NEW ok \in BOOLEAN, DeleteNode(t, ok) PROVE PathInv'
  <2> DEFINE n == thread[t].node
  <2>1. PICK m \in Nodes :
          /\ m = thread[t].node /\ thread[t].at = "drop" /\ disk' = disk
          /\ IF ok THEN nodes' = [nodes EXCEPT ![m] = GoneRow] /\ UNCHANGED stripped
             ELSE UNCHANGED nodes /\ stripped' = stripped \cup {m}
    BY <1>5 DEF DeleteNode, Types, Sound, OfNode
  <2>2. thread'[t].at = "idle" /\ \A x \in Handlers \ {t} : thread'[x] = thread[x]
    BY <1>5, EndsLemma DEF DeleteNode
  <2>3. \A k \in Nodes \ {m} : nodes'[k] = nodes[k]
    BY <2>1 DEF Types, Tables
  <2>4. ok => nodes'[m].status = "gone"
    BY <2>1 DEF Types, Tables, GoneRow, NoRow
  <2>5. ASSUME NEW k \in Nodes \ {m}, Has(k) PROVE Has(k)'
    BY <2>1, <2>2, <2>3, <2>5 DEF Has, Dropping
  <2>6. ~ok => nodes' = nodes /\ Has(m)'
    BY <2>1 DEF Has
  <2>7. NoneLoses(t)
    BY <2>1, <2>2, <2>3, <2>4, <2>5, <2>6 DEF NoneLoses, Here
  <2>8. Creates(t)' /\ \A k \in Nodes : Knows(t, k)'
    BY <2>2 DEF Creates, Knows, Links
  <2>9. \A k \in Nodes : nodes'[k].status = "here" /\ nodes'[k].linked => Has(k)'
    BY <2>3, <2>4, <2>5, <2>6 DEF PathInv, Here
  <2> QED
    BY <2>7, <2>8, <2>9, PathsKept
<1>6. ASSUME NEW ok \in BOOLEAN, RewriteFile(t, ok) PROVE PathInv'
  <2>1. CASE ~ok
    BY <1>6, <2>1, EndsLemma, PathsRest DEF RewriteFile
  <2>2. CASE ok
    <3>1. Written(t) /\ Merges(t) /\ thread[t].at # "drop" /\ UNCHANGED nodes
      BY <1>6, <2>2 DEF RewriteFile
    <3>2. thread'[t].at = "merge" /\ \A x \in Handlers \ {t} : thread'[x] = thread[x]
      BY <3>1, MergesLemma
    <3>3. Creates(t)' /\ \A n \in Nodes : Knows(t, n)'
      BY <3>2 DEF Creates, Knows, Links
    <3> QED
      BY <3>1, <3>2, <3>3, WrittenLemma, PathsKept
  <2> QED
    BY <2>1, <2>2
<1>7. ASSUME NEW text \in BOOLEAN, UpdateNode(t, text) PROVE PathInv'
  <2>1. thread[t].at = "update" /\ thread[t].node \in Nodes /\ thread[t].linked \in BOOLEAN
    BY <1>7 DEF UpdateNode, Types, Sound, Thread, OfNode
  <2>2. Ends(t) \/ Go(t, "rewrite")
    BY <1>7 DEF UpdateNode
  <2>3. /\ thread'[t].at \in {"idle", "rewrite"}
        /\ \A x \in Handlers \ {t} : thread'[x] = thread[x]
    BY <2>2, EndsLemma, GoLemma DEF Places, OfSkill
  <2>4. thread[t].linked => Links(t, thread[t].node)
    BY <2>1 DEF Links
  <2>5. PICK n \in Nodes, l \in BOOLEAN :
          /\ n = thread[t].node /\ l = thread[t].linked
          /\ nodes' = IF Here(n) THEN [nodes EXCEPT ![n].linked = l] ELSE nodes
          /\ IF l THEN Linked(t, n) ELSE UNCHANGED stripped
          /\ UNCHANGED disk
    BY <1>7, <2>1 DEF UpdateNode
  <2>6. /\ NoneLoses(t)
        /\ \A m \in Nodes : nodes'[m].status = "here" /\ nodes'[m].linked => Has(m)'
    BY <2>1, <2>3, <2>4, <2>5, LinkedPaths
  <2>7. Creates(t)' /\ \A m \in Nodes : Knows(t, m)'
    BY <2>3 DEF Creates, Knows, Links
  <2> QED
    BY <2>6, <2>7, PathsKept
<1>8. CASE List(t)
  <2>1. PICK first \in SUBSET Nodes :
          /\ \A n \in first : Here(n) /\ nodes[n].slug \in disk
          /\ thread' = [thread EXCEPT ![t] = [Idle EXCEPT !.at = "relink", !.todo = first]]
    BY <1>8 DEF List
  <2> DEFINE x == [Idle EXCEPT !.at = "relink", !.todo = first]
  <2>2. x.at = "relink" /\ x.todo = first /\ thread[t].at = "idle" /\ UNCHANGED <<nodes, disk, stripped>>
    BY <1>8, IdleSound DEF Idle, List
  <2>3. thread' = [thread EXCEPT ![t] = x]
    BY <2>1
  <2> HIDE DEF x
  <2>4. thread'[t] = x /\ \A y \in Handlers \ {t} : thread'[y] = thread[y]
    BY <2>3, SetLemma
  <2>5. ASSUME NEW m \in Nodes PROVE Has(m) => Has(m)'
    BY <2>2, <2>4 DEF Has, Dropping
  <2>6. NoneLoses(t)
    BY <2>2, <2>4, <2>5 DEF NoneLoses, Here
  <2>7. Creates(t)' /\ \A m \in Nodes : Knows(t, m)'
    BY <2>1, <2>2, <2>4, <2>5 DEF Creates, Knows, Links, Has, Here
  <2>8. \A m \in Nodes : nodes'[m].status = "here" /\ nodes'[m].linked => Has(m)'
    BY <2>2, <2>5 DEF PathInv, Here
  <2> QED
    BY <2>6, <2>7, <2>8, PathsKept
<1> QED
  BY <1>1, <1>2, <1>3, <1>4, <1>5, <1>6, <1>7, <1>8, RemovePaths
  DEF SkillStep, handleListSkills, Search, listInstalledSkills, SkillSummaries

LEMMA RestartPaths ==
  ASSUME Types, PathInv, Restart
  PROVE  PathInv'
<1>1. PICK start \in EnsureBundled(nodes, disk) :
        /\ nodes' = start.table /\ disk' = start.files
        /\ stripped' = stripped \cup {thread[t].node : t \in {x \in Handlers : thread[x].at = "drop"}}
  BY DEF Restart
<1>2. \A t \in Handlers : thread'[t] = Idle
  BY DEF Restart
<1>3. disk \subseteq disk' /\ \A n \in Nodes : nodes'[n] = nodes[n] \/ nodes'[n].slug \in disk'
  BY <1>1, BundledSound DEF Types, Tables
<1>4. ASSUME NEW n \in Nodes, Has(n), nodes'[n] = nodes[n] PROVE Has(n)'
  BY <1>1, <1>3, <1>4 DEF Has, Dropping
<1>5. ASSUME NEW n \in Nodes, nodes'[n].status = "here", nodes'[n].linked PROVE Has(n)'
  BY <1>3, <1>4, <1>5 DEF PathInv, Here, Has
<1>6. \A t \in Handlers : Creates(t)' /\ \A n \in Nodes : Knows(t, n)'
  BY <1>2, IdleSound DEF Creates, Knows, Links
<1> QED
  BY <1>5, <1>6 DEF PathInv, Here

LEMMA PathsInit == Init => PathInv
<1> SUFFICES ASSUME Init PROVE PathInv
  OBVIOUS
<1>1. PICK old \in Legacy :
        \E start \in EnsureBundled([n \in Nodes |-> IF n = 1 THEN old.row ELSE NoRow],
                                   IF old.file THEN {old.row.slug} ELSE {}) :
          /\ nodes = start.table /\ disk = start.files
          /\ stripped = IF start.table[1].linked /\ ~old.file THEN {1} ELSE {}
  BY DEF Init
<1>2. old.row \in Row /\ old.file \in BOOLEAN /\ (old.file => old.row.slug \in Slugs)
  <2>1. CASE old = [row |-> NoRow, file |-> FALSE]
    BY <2>1, RowsSound
  <2>2. CASE old \in [row : [status : {"here"}, slug : Slugs, linked : BOOLEAN], file : BOOLEAN]
    BY <2>2 DEF Row
  <2> QED
    BY <2>1, <2>2 DEF Legacy
<1> DEFINE table == [n \in Nodes |-> IF n = 1 THEN old.row ELSE NoRow]
           files == IF old.file THEN {old.row.slug} ELSE {}
<1>3. table \in [Nodes -> Row] /\ files \in SUBSET Slugs
  BY <1>2, RowsSound
<1>4. /\ files \subseteq disk /\ \A n \in Nodes : nodes[n] = table[n] \/ nodes[n].slug \in disk
      /\ nodes[1].linked /\ ~old.file => 1 \in stripped
  <2>1. PICK start \in EnsureBundled(table, files) :
          /\ nodes = start.table /\ disk = start.files
          /\ stripped = IF start.table[1].linked /\ ~old.file THEN {1} ELSE {}
    BY <1>1
  <2> HIDE DEF table, files
  <2> QED
    BY <1>3, <2>1, BundledSound
<1>5. NoRow.status = "none"
  BY DEF NoRow
<1>6. ASSUME NEW n \in Nodes, Here(n), nodes[n].linked PROVE Has(n)
  <2>1. CASE nodes[n].slug \in disk
    BY <2>1 DEF Has
  <2>2. CASE nodes[n] = table[n]
    <3>1. n = 1 /\ nodes[n] = old.row
      BY <1>5, <1>6, <2>2 DEF Here
    <3>2. old.file => nodes[n].slug \in disk
      BY <1>4, <3>1
    <3> QED
      BY <1>4, <1>6, <3>1, <3>2 DEF Has
  <2> QED
    BY <1>4, <2>1, <2>2
<1>7. \A t \in Handlers : Creates(t) /\ \A n \in Nodes : Knows(t, n)
  BY IdleSound DEF Init, Creates, Knows, Links
<1> QED
  BY <1>6, <1>7 DEF PathInv

LEMMA PathsStep == Types /\ PathInv /\ [Next]_vars => PathInv'
<1> SUFFICES ASSUME Types, PathInv, [Next]_vars PROVE PathInv'
  OBVIOUS
<1>1. CASE UNCHANGED vars
  BY <1>1 DEF vars, PathInv, Creates, Knows, Links, Has, Dropping, Here
<1> QED
  BY <1>1, InstallPaths, ListPaths, SkillPaths, RestartPaths DEF Next

\* However installations, uninstallations, updates, listings and restarts of any number of
\* skills interleave, a skill's node has its file, unless the skill is being uninstalled or
\* the file was lost to an uninstallation or an incomplete copy.
THEOREM FilesStay == Spec => []NodesHaveFiles
<1>1. PathInv => NodesHaveFiles
  BY DEF PathInv, NodesHaveFiles, Has, Dropping
<1> QED
  BY <1>1, InitTypes, TypesStep, PathsInit, PathsStep, PTL DEF Spec
=============================================================================
