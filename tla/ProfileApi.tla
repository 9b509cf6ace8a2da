------------------------------ MODULE ProfileApi ------------------------------
(* The two ways in to ProfileManager: the requests of ProfilesController,   *)
(* which hold the context's gate from their checks to their answer, and the *)
(* commands that go through BesqContext and ManagePipeline. A request is a  *)
(* step; its body may be unusable. The three kinds of rows have handlers of *)
(* the same shape.                                                          *)
EXTENDS ProfileManager

VARIABLES
  group,  \* BesqContext::Impl::active_group
  status  \* the answer to the last request or command

apiVars == <<managerVars, group, status>>

Refusals == {"invalid", "missing", "conflict", "thrown"} \* 400, 404, 409, 500
Answer(s) == status' = s /\ UNCHANGED <<managerVars, group>>
Done(s) == status' = s /\ UNCHANGED group

\* The checks before a request is carried out, in their order: the profile of
\* the path, the body, and what the body names.
Guarded(checks, Good) ==
  IF \E i \in DOMAIN checks : ~checks[i][1]
  THEN Answer(checks[CHOOSE i \in DOMAIN checks :
                       ~checks[i][1] /\ \A j \in 1 .. i - 1 : checks[j][1]][2])
  ELSE Good
Known(n) == <<n \in Listed, "missing">>
Usable(body) == <<body, "invalid">>

-----------------------------------------------------------------------------
(* Profiles.                                                                *)
CreateReq(body, source, dest) ==
  Guarded(<<Usable(body), Known(source), <<dest \notin Listed, "conflict">> >>,
          Derive(source, dest) /\ Done("ok"))
ForkReq(n, body, dest) ==
  Guarded(<<Known(n), Usable(body), <<dest \notin Listed, "conflict">> >>,
          Derive(n, dest) /\ Done("ok"))
MergeReq(n, body, dest) ==
  Guarded(<<Known(n), Usable(body), Known(dest)>>,
          IF n = dest THEN Answer("ok") ELSE Merge(n, dest) /\ Done("ok"))
RenameReq(n, body, new) ==
  Guarded(<<Known(n), Usable(body), <<new \notin Listed, "conflict">> >>,
          Rename(n, new) /\ Done("ok"))

\* An edit is made on a valid profile only, and it has to leave it valid.
Stays(n, after) == Valid(profiles[n]) /\ Valid(after)

\* A body without dependencies changes nothing.
UpdateReq(n, body, deps) ==
  Guarded(<<Known(n), Usable(body)>>,
    \/ Answer("ok")
    \/ IF IsCyclic([profiles EXCEPT ![n].deps = deps], n) \/ ~Valid(profiles[n])
       THEN status' = "conflict" /\ UNCHANGED group
            /\ IF Valid(profiles[n]) /\ depGraph # Graph(profiles) THEN SetDependencies(n, deps)
               ELSE UNCHANGED managerVars
       ELSE SetDependencies(n, deps) /\ Done("ok"))

\* Mutant: the root is a profile like any other.
RemoveReq_Root(n) == Guarded(<<Known(n)>>, RemoveProfile(n) /\ Done("ok"))

\* remove() does not look at the group.
RemoveReq(n) ==
  Guarded(<<Known(n), <<n # Vanilla, "conflict">> >>, RemoveProfile(n) /\ Done("ok"))

ActivateReq(n) ==
  Guarded(<<Known(n)>>,
    /\ active' = n /\ group' = <<>> /\ status' = "ok"
    /\ UNCHANGED <<profiles, undoLog, depGraph, cache, sourced, steps>>)

\* effective_profile(), resolve_effective(): a cycle throws.
Cyclic(members) == \E m \in ToSet(members) : IsCyclic(profiles, m)
Viewed(members, done) ==
  /\ depGraph' = Graph(profiles)
  /\ \E kept \in {IF depGraph # Graph(profiles) THEN <<>> ELSE cache} :
       cache' = IF Cyclic(members) \/ members \in DOMAIN kept THEN kept
                ELSE (members :> View(profiles, members)) @@ kept
  /\ status' = IF Cyclic(members) THEN "thrown" ELSE done
  /\ UNCHANGED <<profiles, undoLog, sourced, steps>>

\* GET .../enchantables/{item}
ViewReq(n) == Guarded(<<Known(n)>>, Viewed(<<n>>, "ok") /\ UNCHANGED <<active, group>>)

\* POST .../publish: the view is made, then the file, which may not open.
PublishReq(n, body) ==
  Guarded(<<Known(n), Usable(body)>>,
    \E done \in {"ok", "invalid"} : Viewed(<<n>>, done) /\ UNCHANGED <<active, group>>)

-----------------------------------------------------------------------------
(* Rows: a refused edit is a conflict when a row is added and a missing row *)
(* when one is updated or removed, whatever the reason.                     *)
AddReq(n, body, id, row) ==
  Guarded(<<Known(n), Usable(body)>>,
    IF id \notin DOMAIN profiles[n].rows /\ Stays(n, [profiles[n] EXCEPT !.rows = (id :> row) @@ @])
    THEN AddRow(n, id, row) /\ Done("ok") ELSE Answer("conflict"))
UpdateRowReq(n, body, id, row) ==
  Guarded(<<Known(n), Usable(body)>>,
    IF id \in DOMAIN profiles[n].rows /\ Stays(n, [profiles[n] EXCEPT !.rows[id] = row])
    THEN UpdateRow(n, id, row) /\ Done("ok") ELSE Answer("missing"))
RemoveRowReq(n, id) ==
  Guarded(<<Known(n)>>,
    IF id \in DOMAIN profiles[n].rows /\ Stays(n, [profiles[n] EXCEPT !.rows = Without(@, id)])
    THEN RemoveRow(n, id) /\ Done("ok") ELSE Answer("missing"))

-----------------------------------------------------------------------------
(* Commands. They work on the active profile.                               *)
\* Mutant: the group is selected before its view is made.
ActivateGroup_First(members) ==
  IF ~(ToSet(members) \subseteq Listed) THEN Answer("thrown")
  ELSE Viewed(members, "ok") /\ active' = members[1] /\ group' = members

\* activate_profile_group(): the view of the group is made before anything else.
ActivateGroup(members) ==
  IF ~(ToSet(members) \subseteq Listed) THEN Answer("thrown")
  ELSE /\ Viewed(members, "ok")
       /\ IF Cyclic(members) THEN UNCHANGED <<active, group>>
          ELSE active' = members[1] /\ group' = members

\* _resolve_active(), which solves, formatting and exports begin with.
ResolveActive ==
  LET members == IF Len(group) > 1 THEN group ELSE <<active>> IN
  IF Len(group) > 1 /\ ~(ToSet(group) \subseteq Listed) THEN Answer("thrown")
  ELSE Viewed(members, "ok") /\ UNCHANGED <<active, group>>

\* LoadBuiltin makes the root and selects it, once.
LoadBuiltin ==
  IF Vanilla \in Listed THEN Answer("ok")
  ELSE /\ profiles' = (Vanilla :> EmptyProfile) @@ profiles /\ sourced' = sourced \ {Vanilla}
       /\ Forget /\ active' = Vanilla /\ Done("ok")
       /\ UNCHANGED <<undoLog, depGraph, steps>>

\* LoadFile and ImportRegistry: rows are put in with no check and no undo.
Import(id, row) ==
  IF active \notin Listed THEN Answer("thrown") ELSE EditDirectly(active, id, row) /\ Done("ok")

\* AddEnchantment, ModifyEnchantment and their like, on the active profile.
EditActive(id, row) ==
  IF active \notin Listed THEN Answer("thrown")
  ELSE AddReq(active, TRUE, id, row) \/ UpdateRowReq(active, TRUE, id, row) \/ RemoveRowReq(active, id)

-----------------------------------------------------------------------------
ApiInit ==
  /\ profiles = (Vanilla :> EmptyProfile) /\ active = Vanilla /\ undoLog = <<>>
  /\ depGraph = <<>> /\ cache = <<>> /\ sourced = {} /\ steps = 0
  /\ group = <<>> /\ status = "ok"
ApiNext ==
  \/ \E n \in Names : RemoveReq(n) \/ ActivateReq(n) \/ ViewReq(n)
  \/ \E n, dest \in Names, body \in BOOLEAN :
       CreateReq(body, n, dest) \/ ForkReq(n, body, dest) \/ MergeReq(n, body, dest) \/ RenameReq(n, body, dest)
  \/ \E n \in Names, body \in BOOLEAN : PublishReq(n, body) \/ \E deps \in Requests : UpdateReq(n, body, deps)
  \/ \E n \in Names, id \in Ids : RemoveRowReq(n, id) \/
       \E row \in RowsOf[id], body \in BOOLEAN : AddReq(n, body, id, row) \/ UpdateRowReq(n, body, id, row)
  \/ \E members \in Groups : Len(members) > 1 /\ ActivateGroup(members)
  \/ ResolveActive \/ LoadBuiltin
  \/ \E id \in Ids : \E row \in RowsOf[id] : Import(id, row) \/ EditActive(id, row)

(* A refusal leaves the profiles, their undo histories and the selection as *)
(* they are. The root is only ever lost by renaming it: rename() knows of   *)
(* no root.                                                                 *)
RefusalsChangeNothing ==
  /\ status' \in Refusals => UNCHANGED <<profiles, undoLog, active, group>>
  /\ Vanilla \in Listed /\ Vanilla \notin DOMAIN profiles' =>
       \E n \in DOMAIN profiles' : profiles'[n] = profiles[Vanilla] /\ n \notin Listed
=============================================================================
