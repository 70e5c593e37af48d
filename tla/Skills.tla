-------------------------------- MODULE Skills --------------------------------
(***************************************************************************)
(* Skills (skills/manager.go, skills/clawhub.go, api/skills.go and         *)
(* tools/skilladapter.go) and the list of domains they need                *)
(* (config/store.go, api/settings.go, tools/executor.go).                  *)
(*                                                                         *)
(* A skill is a file <dir>/<slug>/SKILL.md and a node that names the file: *)
(* each request changes the two one after the other, without a lock.       *)
(* Nobody checks a slug that an agent chooses: an empty one, or one with a *)
(* slash, makes directories that lie in one another.  (A slug stands for   *)
(* its path, cleaned.  What a directory holds but for skills is left out.) *)
(* The list of domains has three copies: the configuration in memory, its  *)
(* file, and the list that the executor of tools enforces.                 *)
(*                                                                         *)
(* What a file says is left out but for its domains, and what a node says  *)
(* but for its path; the node's other life is module Memory's.             *)
(***************************************************************************)
EXTENDS Integers

CONSTANTS
  Slugs,
  Within,        \* slug |-> those whose directory is its own or lies in it
  Plain,         \* those without a slash, as slugify makes them
  Learned,       \* those under the learned directory: imported or written by an agent
  Bundled,       \* the one of Learned that ships with the application, or None
  Domains,
  Mentions,      \* slug |-> the domains in its file
  MaxNodes,      \* bound: nodes ever created
  Handlers,      \* goroutines of the API's handlers and of the agents' tools
  MaxFaults,     \* bound: restarts and steps that fail
  None

Nodes == 1 .. MaxNodes

ASSUME SkillsAssumption ==
  /\ Within \in [Slugs -> SUBSET Slugs] /\ \A s \in Slugs : s \in Within[s]
  /\ Plain \subseteq Slugs
  /\ Learned \subseteq Slugs /\ Bundled \in Learned \cup {None}
  /\ Mentions \in [Slugs -> SUBSET Domains]
  /\ MaxNodes \in Nat \ {0} /\ MaxFaults \in Nat
  /\ None \notin Slugs \cup Nodes

VARIABLES
  nodes,     \* table nodes, those of type skill
  disk,      \* slugs whose SKILL.md is there
  allowed,   \* config.Store.cfg.Security.AllowedDomains
  saved,     \* the same in cogitator.yaml
  enforced,  \* Executor.allowedDomains
  thread,
  faults,
  stripped,  \* history: nodes that were left without their file
  apart      \* history: has an overlap or a failure set the lists of domains apart?

config == <<allowed, saved>>
lists == <<config, enforced, apart>>
vars == <<nodes, disk, lists, thread, faults, stripped>>

\* linked: is skill_path set?  The slug of an unlinked node is that of its title.
NoRow == [status |-> "none", slug |-> None, linked |-> FALSE]
GoneRow == [NoRow EXCEPT !.status = "gone"]
Row == [status : {"here"}, slug : Slugs, linked : BOOLEAN] \cup {NoRow, GoneRow}
Thread == [at : {"idle", "download", "fetch", "gate", "confirm", "write", "create", "merge", "enforce",
                 "remove", "drop", "update", "rewrite", "relink", "save"},
           slug : Slugs \cup {None}, node : Nodes \cup {None}, linked : BOOLEAN,
           todo : SUBSET Nodes, domains : SUBSET Domains,
           robbed : BOOLEAN]   \* history: has an uninstallation removed the file since?
Idle == [at |-> "idle", slug |-> None, node |-> None, linked |-> FALSE,
         todo |-> {}, domains |-> {}, robbed |-> FALSE]

Here(n) == nodes[n].status = "here"
At(slug) == {n \in Nodes : Here(n) /\ nodes[n].linked /\ nodes[n].slug = slug}

TypeOK ==
  /\ nodes \in [Nodes -> Row]
  /\ disk \in SUBSET Slugs
  /\ allowed \in SUBSET Domains /\ saved \in SUBSET Domains /\ enforced \in SUBSET Domains
  /\ thread \in [Handlers -> Thread]
  /\ faults \in 0 .. MaxFaults
  /\ stripped \in SUBSET Nodes
  /\ apart \in BOOLEAN

-----------------------------------------------------------------------------
(* Helpers.                                                                *)

Begins(t, at, s) ==
  /\ thread[t] = Idle
  /\ thread' = [thread EXCEPT ![t] = [Idle EXCEPT !.at = at, !.slug = s]]
Go(t, at) == thread' = [thread EXCEPT ![t].at = at]
Ends(t) == thread' = [thread EXCEPT ![t] = Idle]

\* Bound: a restart, or a step that fails, is one of MaxFaults.
Fault(ok) == /\ ok \/ faults < MaxFaults
             /\ faults' = IF ok THEN faults ELSE faults + 1

Unused == {n \in Nodes : nodes[n].status = "none"}
NewRow(slug) == [status |-> "here", slug |-> slug, linked |-> TRUE]

\* Goroutines between their change of the configuration, or their reading of it, and
\* their last write.
Updating(t) == {x \in Handlers \ {t} : thread[x].at \in {"enforce", "save"}}

\* The domains of the file are then allowed.
Merges(t) == thread' = [thread EXCEPT
  ![t] = [Idle EXCEPT !.at = "merge", !.domains = Mentions[thread[t].slug]]]

\* History: the node names a file that has been removed since the goroutine saw it.
Linked(t, n) == stripped' = IF thread[t].robbed THEN stripped \cup {n} ELSE stripped

-----------------------------------------------------------------------------
(* Installation.                                                           *)

\* Manager.Install asks for the node before the download.
Install(t, s) ==
  /\ s \notin Learned
  /\ At(s) = {}
  /\ Begins(t, "download", s)
  /\ UNCHANGED <<nodes, disk, lists, faults, stripped>>

handleInstallSkill(t, s) == Install(t, s)

\* The agents' tool downloads first; it is refused in the run of a task.
installSkill(t, s) ==
  /\ s \notin Learned
  /\ Begins(t, "fetch", s)
  /\ UNCHANGED <<nodes, disk, lists, faults, stripped>>

DownloadSkill(t, ok) ==
  /\ thread[t].at \in {"download", "fetch"}
  /\ IF ~ok THEN Ends(t) ELSE Go(t, IF thread[t].at = "fetch" THEN "gate" ELSE "confirm")
  /\ UNCHANGED <<nodes, disk, lists, faults, stripped>>

NewDomains(ds) == ds \ allowed

\* ScanContent and NewDomains: the user is asked before a file that looks suspicious, or
\* that needs a new domain, is installed; with force he has been.
Gate(t, suspicious, force) ==
  /\ thread[t].at = "gate"
  /\ IF ~force /\ (suspicious \/ NewDomains(Mentions[thread[t].slug]) # {})
     THEN Ends(t) ELSE Go(t, "confirm")
  /\ UNCHANGED <<nodes, disk, lists, faults, stripped>>

\* A skill in the learned directory is not downloaded.
CreateSkill(t, s) ==
  /\ s \in Learned
  /\ Begins(t, "confirm", s)
  /\ UNCHANGED <<nodes, disk, lists, faults, stripped>>

handleImportSkill(t, s) == s \in Plain /\ CreateSkill(t, s)

\* The agents' tool, with any slug.
createSkill(t, s) == CreateSkill(t, s)

\* FindNodeBySkillPath in InstallFromContent and CreateSkill: a skill that has a node is
\* installed, whether or not its file is there.
FindNode(t) ==
  /\ thread[t].at = "confirm"
  /\ IF At(thread[t].slug) # {} THEN Ends(t) ELSE Go(t, "write")
  /\ UNCHANGED <<nodes, disk, lists, faults, stripped>>

Written(t) ==
  /\ disk' = disk \cup {thread[t].slug}
  /\ stripped' = stripped \ At(thread[t].slug)

\* Mutant: the node is created though the file could not be written.
WriteIgnoringErrors(t, ok) ==
  /\ thread[t].at = "write"
  /\ Fault(ok)
  /\ IF ok THEN Written(t) ELSE UNCHANGED <<disk, stripped>>
  /\ Go(t, "create")
  /\ UNCHANGED <<nodes, lists>>

WriteFile(t, ok) ==
  /\ thread[t].at = "write"
  /\ Fault(ok)
  /\ IF ok THEN Written(t) /\ Go(t, "create") ELSE Ends(t) /\ UNCHANGED <<disk, stripped>>
  /\ UNCHANGED <<nodes, lists>>

\* The node is there; its content and the events concern the enricher alone.
InstallFromContent(t, n) ==
  /\ nodes' = [nodes EXCEPT ![n] = NewRow(thread[t].slug)]
  /\ Linked(t, n)
  /\ Merges(t)

\* Store.CreateNode, for InstallFromContent and CreateSkill.  When it fails the file stays.
CreateNode(t, ok) ==
  /\ thread[t].at = "create"
  /\ Fault(ok)
  /\ \/ ~ok /\ Ends(t) /\ UNCHANGED <<nodes, stripped>>
     \/ \E n \in Unused :
        /\ ok
        /\ \A m \in Unused : n <= m
        /\ InstallFromContent(t, n)
  /\ UNCHANGED <<disk, lists>>

-----------------------------------------------------------------------------
(* The lists of domains.                                                   *)

\* allow_domain.
AllowDomain(t, d) ==
  /\ thread[t] = Idle
  /\ thread' = [thread EXCEPT ![t] = [Idle EXCEPT !.at = "merge", !.domains = {d}]]
  /\ UNCHANGED <<nodes, disk, lists, faults, stripped>>

\* Mutant: the executor is not told of the domains.
MergeWithoutExecutor(t, ok) ==
  LET ds == thread[t].domains
      added == ~(ds \subseteq allowed)
  IN  /\ thread[t].at = "merge"
      /\ added \/ ok
      /\ Fault(ok)
      /\ allowed' = allowed \cup ds
      /\ saved' = IF added /\ ok THEN allowed' ELSE saved
      /\ apart' = (~ok \/ Updating(t) # {} \/ (~added /\ apart))
      /\ Ends(t)
      /\ UNCHANGED <<nodes, disk, enforced, stripped>>

\* MergeAllowedDomains: when the file cannot be written, memory keeps the domains and
\* the executor is not told.  Without domains there is nothing to do.
Merge(t, ok) ==
  LET ds == thread[t].domains
      added == ~(ds \subseteq allowed)
  IN  /\ thread[t].at = "merge"
      /\ added \/ ok
      /\ Fault(ok)
      /\ allowed' = allowed \cup ds
      /\ saved' = IF added /\ ok THEN allowed' ELSE saved
      /\ apart' = (~ok \/ Updating(t) # {} \/ (~added /\ apart))
      /\ IF ok /\ ds # {}
         THEN thread' = [thread EXCEPT ![t].at = "enforce", ![t].domains = allowed']
         ELSE Ends(t)
      /\ UNCHANGED <<nodes, disk, enforced, stripped>>

\* Executor.SetAllowedDomains with the list that Merge returned.
SetAllowedDomains(t) ==
  /\ thread[t].at = "enforce"
  /\ enforced' = thread[t].domains
  /\ Ends(t)
  /\ UNCHANGED <<nodes, disk, config, apart, faults, stripped>>

\* handleUpdateSettings with a list of domains: the executor is told before the
\* configuration that was read is saved.
UpdateSettings(t, ds) ==
  /\ thread[t] = Idle
  /\ enforced' = ds
  /\ apart' = (Updating(t) # {})
  /\ thread' = [thread EXCEPT ![t] = [Idle EXCEPT !.at = "save", !.domains = ds]]
  /\ UNCHANGED <<nodes, disk, config, faults, stripped>>

\* It, handleSkipVersion and Server.Start change another part of what they have read.
ReadConfig(t) ==
  /\ thread[t] = Idle
  /\ apart' = (apart \/ Updating(t) # {})
  /\ thread' = [thread EXCEPT ![t] = [Idle EXCEPT !.at = "save", !.domains = allowed]]
  /\ UNCHANGED <<nodes, disk, config, enforced, faults, stripped>>

\* Store.Save replaces the whole configuration, after the file.
Save(t, ok) ==
  /\ thread[t].at = "save"
  /\ Fault(ok)
  /\ IF ok THEN allowed' = thread[t].domains /\ saved' = thread[t].domains ELSE UNCHANGED config
  /\ apart' = (apart \/ ~ok)
  /\ Ends(t)
  /\ UNCHANGED <<nodes, disk, enforced, stripped>>

-----------------------------------------------------------------------------
(* The other operations on a skill.                                        *)

GetNode(t, n, at) ==
  /\ thread[t] = Idle /\ Here(n)
  /\ thread' = [thread EXCEPT ![t] = [Idle EXCEPT !.at = at, !.slug = nodes[n].slug,
                                        !.node = n, !.linked = nodes[n].linked]]

Uninstall(t, n) ==
  /\ GetNode(t, n, "remove")
  /\ UNCHANGED <<nodes, disk, lists, faults, stripped>>

\* os.RemoveAll, its error ignored, removes the directory with all that lies in it.
\* History: other nodes, and goroutines that work on a skill there, lose their file.
RemoveAll(t, ok) ==
  LET inside == Within[thread[t].slug]
      robs == ok /\ thread[t].linked
      works(x) == thread[x].slug \in inside \/ \E n \in thread[x].todo : nodes[n].slug \in inside
  IN  /\ thread[t].at = "remove"
      /\ Fault(ok)
      /\ disk' = IF robs THEN disk \ inside ELSE disk
      /\ stripped' = IF robs THEN stripped \cup ((UNION {At(s) : s \in inside}) \ {thread[t].node})
                     ELSE stripped
      /\ thread' = [x \in Handlers |->
           IF x = t THEN [thread[x] EXCEPT !.at = "drop"]
           ELSE [thread[x] EXCEPT !.robbed = @ \/ (robs /\ works(x))]]
      /\ UNCHANGED <<nodes, lists>>

DeleteNode(t, ok) ==
  LET n == thread[t].node IN
  /\ thread[t].at = "drop"
  /\ Fault(ok)
  /\ IF ok THEN nodes' = [nodes EXCEPT ![n] = GoneRow] /\ UNCHANGED stripped
     ELSE UNCHANGED nodes /\ stripped' = stripped \cup {n}
  /\ Ends(t)
  /\ UNCHANGED <<disk, lists>>

UpdateSkill(t, n) ==
  /\ GetNode(t, n, "update")
  /\ UNCHANGED <<nodes, disk, lists, faults, stripped>>

handleUpdateSkill(t, n) == UpdateSkill(t, n)

\* The agents' tool, which passes no title and no summary.
updateSkill(t, n) == UpdateSkill(t, n)

\* Mutant: the row is written whether or not it is still there.
UpsertNode(t, text) ==
  LET n == thread[t].node IN
  /\ thread[t].at = "update"
  /\ nodes' = [nodes EXCEPT ![n].linked = thread[t].linked]
  /\ IF thread[t].linked THEN Linked(t, n) ELSE UNCHANGED stripped
  /\ IF text /\ thread[t].linked THEN Go(t, "rewrite") ELSE Ends(t)
  /\ UNCHANGED <<disk, lists, faults>>

\* UpdateNode writes the row that was read, path included; then a new text, if any, is
\* written to the file, whether or not the node is still there.
UpdateNode(t, text) ==
  LET n == thread[t].node IN
  /\ thread[t].at = "update"
  /\ nodes' = IF Here(n) THEN [nodes EXCEPT ![n].linked = thread[t].linked] ELSE nodes
  /\ IF thread[t].linked THEN Linked(t, n) ELSE UNCHANGED stripped
  /\ IF text /\ thread[t].linked THEN Go(t, "rewrite") ELSE Ends(t)
  /\ UNCHANGED <<disk, lists, faults>>

RewriteFile(t, ok) ==
  /\ thread[t].at = "rewrite"
  /\ Fault(ok)
  /\ IF ok THEN Written(t) /\ Merges(t) ELSE Ends(t) /\ UNCHANGED <<disk, stripped>>
  /\ UNCHANGED <<nodes, lists>>

\* ReadSkill: every reading allows the file's domains again.
ReadSkill(t, n) ==
  /\ thread[t] = Idle /\ Here(n)
  /\ nodes[n].linked /\ nodes[n].slug \in disk
  /\ thread' = [thread EXCEPT ![t] = [Idle EXCEPT !.at = "merge", !.domains = Mentions[nodes[n].slug]]]
  /\ UNCHANGED <<nodes, disk, lists, faults, stripped>>

\* The agents' tool; the dashboard's editor reads the file alone (ReadSkillRaw).
readSkill(t, n) == ReadSkill(t, n)

\* List, and backfillSkillPaths for the rows it has read: a node without a path is given
\* the installed file of its title's slug that no row claims, the latest node first.
List(t) ==
  LET loose == {n \in Nodes : Here(n) /\ ~nodes[n].linked /\ nodes[n].slug \in disk \ Learned
                              /\ At(nodes[n].slug) = {}}
      first == {n \in loose : \A m \in loose : nodes[m].slug = nodes[n].slug => m <= n}
  IN  /\ thread[t] = Idle /\ first # {}
      /\ thread' = [thread EXCEPT ![t] = [Idle EXCEPT !.at = "relink", !.todo = first]]
      /\ UNCHANGED <<nodes, disk, lists, faults, stripped>>

\* Whoever lists the skills backfills their paths: the dashboard, the two tools and, at
\* every message of a chat, the prompt of the agent.
handleListSkills(t) == List(t)
Search(t) == List(t)
listInstalledSkills(t) == List(t)
SkillSummaries(t) == List(t)

Relink(t, n) ==
  /\ thread[t].at = "relink" /\ n \in thread[t].todo
  /\ nodes' = IF Here(n) THEN [nodes EXCEPT ![n].linked = TRUE] ELSE nodes
  /\ Linked(t, n)
  /\ LET rest == thread[t].todo \ {n}
     IN  thread' = [thread EXCEPT ![t] = IF rest = {} THEN Idle ELSE [@ EXCEPT !.todo = rest]]
  /\ UNCHANGED <<disk, lists, faults>>

-----------------------------------------------------------------------------
(* The process.                                                            *)

\* EnsureBundled creates file and node of a bundled skill that has no node; it fails at
\* the file or at the node.
EnsureBundled(table, files) ==
  LET free == {n \in Nodes : table[n].status = "none"}
      has == \E n \in Nodes : table[n].status = "here" /\ table[n].linked /\ table[n].slug = Bundled
  IN  IF has \/ Bundled = None THEN {[table |-> table, files |-> files]}
      ELSE {[table |-> table, files |-> files], [table |-> table, files |-> files \cup {Bundled}]}
           \cup {[table |-> [table EXCEPT ![n] = NewRow(Bundled)], files |-> files \cup {Bundled}] :
                  n \in {m \in free : \A k \in free : m <= k}}

\* A node of an earlier process: as it should be, without its path as older versions
\* left it, or without its file, where only the database was copied.
Legacy == {[row |-> NoRow, file |-> FALSE]} \cup
          [row : [status : {"here"}, slug : Slugs, linked : BOOLEAN], file : BOOLEAN]

Init ==
  /\ \E old \in Legacy : \E start \in EnsureBundled([n \in Nodes |-> IF n = 1 THEN old.row ELSE NoRow],
                                                   IF old.file THEN {old.row.slug} ELSE {}) :
       /\ nodes = start.table /\ disk = start.files
       /\ stripped = IF start.table[1].linked /\ ~old.file THEN {1} ELSE {}
  /\ allowed = {} /\ saved = {} /\ enforced = {}
  /\ thread = [t \in Handlers |-> Idle]
  /\ faults = 0 /\ apart = FALSE

\* The process stops anywhere: an uninstallation may be half done, and os.WriteFile may
\* have emptied the configuration and not yet written it.
Restart ==
  /\ Fault(FALSE)
  /\ \E start \in EnsureBundled(nodes, disk) :
       /\ nodes' = start.table /\ disk' = start.files
       /\ stripped' = stripped \cup {thread[t].node : t \in {x \in Handlers : thread[x].at = "drop"}}
  /\ \/ saved' = saved
     \/ saved' = {} /\ \E t \in Handlers : thread[t].at \in {"merge", "save"}
  /\ allowed' = saved' /\ enforced' = saved' /\ apart' = FALSE
  /\ thread' = [t \in Handlers |-> Idle]

InstallStep(t) ==
  \/ \E s \in Slugs : \/ handleInstallSkill(t, s) \/ installSkill(t, s)
                     \/ handleImportSkill(t, s) \/ createSkill(t, s)
  \/ \E suspicious, force \in BOOLEAN : Gate(t, suspicious, force)
  \/ FindNode(t)
  \/ \E ok \in BOOLEAN : DownloadSkill(t, ok) \/ WriteFile(t, ok) \/ CreateNode(t, ok)

ListStep(t) ==
  \/ \E d \in Domains : AllowDomain(t, d)
  \/ \E ds \in SUBSET Domains : UpdateSettings(t, ds)
  \/ ReadConfig(t) \/ SetAllowedDomains(t)
  \/ \E ok \in BOOLEAN : Merge(t, ok) \/ Save(t, ok)

SkillStep(t) ==
  \/ \E n \in Nodes : \/ Uninstall(t, n) \/ Relink(t, n) \/ readSkill(t, n)
                     \/ handleUpdateSkill(t, n) \/ updateSkill(t, n)
  \/ \E ok \in BOOLEAN : RemoveAll(t, ok) \/ DeleteNode(t, ok) \/ RewriteFile(t, ok)
  \/ \E text \in BOOLEAN : UpdateNode(t, text)
  \/ handleListSkills(t) \/ Search(t) \/ listInstalledSkills(t) \/ SkillSummaries(t)

Next == Restart \/ \E t \in Handlers : InstallStep(t) \/ ListStep(t) \/ SkillStep(t)

Spec == Init /\ [][Next]_vars

-----------------------------------------------------------------------------
(* Properties.                                                             *)

\* A node of a skill has its file, so that the skill can be read, however installations,
\* updates and restarts overlap.  Only an uninstallation takes it away: the skill's own,
\* which may be cut short, or another's whose directory the skill lies in, the same or
\* one around it.  (And a database may come without its files.)
NodesHaveFiles ==
  \A n \in Nodes : Here(n) /\ nodes[n].linked =>
    \/ nodes[n].slug \in disk \/ n \in stripped
    \/ \E t \in Handlers : thread[t].at = "drop" /\ thread[t].node = n

\* The domains that are configured, those that a restart will read and those that the
\* executor enforces are the same, unless an update goes on, or one has failed, or two
\* have overlapped since the last that was alone.
AllowListsAgree ==
  \/ apart \/ \E t \in Handlers : thread[t].at \in {"enforce", "save"}
  \/ allowed = saved /\ saved = enforced
=============================================================================
