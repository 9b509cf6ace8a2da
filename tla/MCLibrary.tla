------------------------------ MODULE MCLibrary ------------------------------
(* The profiles of domain/business, and small components with a state of    *)
(* their own, beside the scenes of MCSearch, each on small instances: a     *)
(* behaviour is in one scene from its first state on.                       *)
(*   "tags" "manager"   expansions of tags, and the profile manager         *)
(*   "tables" "copies" "merges" "session"   SQL statements on one profile,  *)
(*             between profiles, on tags, and with SAVE, USE and FORK       *)
(*   "flat" "transpositions" "chunks"   a hash map, the table of IDA*, and  *)
(*             the pool of memory that items are made in                    *)
(*   "requests"  the REST interface and the commands of profiles            *)
(*   "replies" "files" "rates"   requests of a connection, static files,    *)
(*             and the rate limiter                                         *)
(*   "packs"   data packs over the built-in data, and the view of both      *)
(*   "adapter" requests as the strategies see them                          *)
(* From "flat" on the scenes share the registers r1, r2, ...: each uses as  *)
(* many of them as it has variables.                                        *)
EXTENDS MCSearch

VARIABLES r1, r2, r3, r4, r5, r6, r7, r8, r9
storeVars == <<r1, r2, r3, r4, r5, r6, r7, r8, r9>>

Flat == INSTANCE FlatMap WITH slots <- r1, count <- r2, meant <- r3,
  Keys <- {0, 2, 4, 8}, Vals <- {1, 2}, Hints <- {2}, Default <- 8
Seen == INSTANCE Transpositions WITH slots <- r1, epoch <- r2, live <- r3, count <- r4, meant <- r5,
  Hashes <- {0, 2, 3}, Costs <- {1, 2}, Buckets <- 2, Threshold <- 1, Epochs <- 4
Chunks == INSTANCE ChunkPool WITH chunks <- r1, cached <- r2, cursor <- r3, capacity <- r4, size <- r5,
  freed <- r6, blocks <- r7,
  Sizes <- {1, 3}, FirstSize <- 2, DefaultSize <- 4, MaxSize <- 4, MaxChunks <- 3

Plain(v) == [val |-> v, excl |-> {}, supp |-> {}]
Api == INSTANCE ProfileApi WITH profiles <- r1, active <- r2, undoLog <- r3, depGraph <- r4, cache <- r5,
  sourced <- r6, steps <- r7, group <- r8, status <- r9,
  Names <- {"V", "A", "B"}, Vanilla <- "V",
  RowsOf <- ("x" :> {Plain(1), [Plain(2) EXCEPT !.excl = {"q"}]}) @@ ("q" :> {Plain(1)}),
  Files <- {}, Groups <- {<<"V", "A">>, <<"A", "B">>}, Requests <- {<<"A">>, <<"B">>}, MaxCalls <- 2

(* Messages: with and without a body, one whose body looks like a head, a   *)
(* body too large, a head too long, every reason to refuse one.             *)
Part == [kind |-> "byte"]
Fine == [kind |-> "head", wellFormed |-> TRUE, recent |-> TRUE, hosts |-> 1, lengths |-> <<>>,
         coded |-> FALSE, expect |-> "none", connection |-> "none", method |-> "GET", path |-> <<"api">>]
Message(lines, head, body) == [lines |-> lines, head |-> head, body |-> body]
Get == Message(1, Fine, <<>>)
Post == Message(0, [Fine EXCEPT !.method = "POST", !.lengths = <<2>>, !.path = <<"api", "x">>,
                                !.expect = "100-continue"], <<Fine, Part>>)
Long == Message(3, [Fine EXCEPT !.connection = "close"], <<>>)
Old == [Fine EXCEPT !.recent = FALSE, !.hosts = 0]
Wrong == {[Fine EXCEPT !.wellFormed = FALSE], [Fine EXCEPT !.hosts = 2], [Fine EXCEPT !.lengths = <<1, 1>>],
          [Fine EXCEPT !.coded = TRUE], [Fine EXCEPT !.expect = "other"], [Fine EXCEPT !.lengths = <<-1>>]}
Kinds == {Get, Post, Long, Message(0, [Fine EXCEPT !.lengths = <<4>>], <<Part, Fine>>)}
  \cup {Message(0, h, <<>>) : h \in Wrong \cup
          {[Fine EXCEPT !.path = <<"events">>], [Fine EXCEPT !.method = "HEAD", !.path = <<"y", "z">>],
           [Old EXCEPT !.path = <<"public">>], [Old EXCEPT !.connection = "keep-alive", !.method = "HEAD"]}}
Route(method, pattern, outcome) == [method |-> method, pattern |-> pattern, outcome |-> outcome]
Replies == INSTANCE RequestStream WITH messages <- r1, sent <- r2, fin <- r3, taken <- r4, start <- r5,
  continued <- r6, closing <- r7, streaming <- r8, replies <- r9,
  Wires <- {<<a, b>> : a \in Kinds, b \in {Get, Post, Long}} \cup {<<Post, a, b>> : a \in {Get, Post}, b \in Kinds},
  Routes <- <<Route("GET", <<"api">>, "done"), Route("POST", <<"api", "{k}">>, "rejected"),
              Route("GET", <<"events">>, "stream"), Route("PUT", <<"y", "{k}">>, "thrown")>>,
  Params <- {"{k}"}, Public <- {"public"}, MaxHead <- 2, MaxBody <- 3, ReadSize <- 3

Away == <<"..", "o">>
Static == INSTANCE StaticFiles WITH disk <- r1, asked <- r2, found <- r3, kept <- r4, served <- r5,
  Paths <- {<<>>, <<"d">>, <<"d", "index.html">>, <<"d", "..", "e">>, <<"l">>, <<"m">>, <<"e">>, <<"%2F">>, <<"d", "">>},
  Embedded <- {<<"e">>}, Folders <- {<<"d">>}, Outside <- Away, Encoded <- {"%2F"},
  Links <- (<<"l">> :> Away) @@ (<<"m">> :> <<"d">>) @@ (<<"m", "index.html">> :> <<"d", "index.html">>),
  Files <- {<<"e">>, <<"d", "index.html">>}, MaxVersion <- 3

(* Two clients with the same first slot, one of them behind a proxy.        *)
Rates == INSTANCE RateLimiter WITH table <- r1, shared <- r2, clock <- r3, serving <- r4, since <- r5,
  behind <- r6,
  Threads <- {1, 2}, Trusted <- {"b"}, Home <- [ip \in {"a", "b"} |-> 0], NSlots <- 2,
  Requests <- {[peer |-> "a", forwarded |-> <<"b">>], [peer |-> "b", forwarded |-> <<"b", "a">>],
               [peer |-> "b", forwarded |-> <<>>]},
  IpBurst <- 1, GlobalBurst <- 1, Cycle <- 5, MaxTime <- 2, MaxGrants <- 2

(* Packs over two vanilla enchantments, a tag and an item: rows that add,   *)
(* rename, narrow or complete, that refer to what is not there, that come   *)
(* twice, and three packs that are refused.                                 *)
Tagged(replace, values) == [replace |-> replace, values |-> values]
Blank == [id |-> "x", name |-> "", platform |-> "", max |-> 0, mul |-> 0, provided |-> FALSE, limited |-> 0,
          treasure |-> FALSE, base |-> 0, step |-> 0, excl |-> {}, refs |-> {"#s"}]
Whole == [Blank EXCEPT !.max = 3, !.mul = 2]
Thing(id, name, category, dur) == [id |-> id, name |-> name, category |-> category, dur |-> dur]
Pack(tags, eq, ench) == [tags |-> tags, eq |-> eq, ench |-> ench]
PackTags == {<<>>, "#s" :> Tagged(FALSE, {"b"}), ("#s" :> Tagged(TRUE, {"b"})) @@ ("#p" :> Tagged(FALSE, {"b"}))}
PackItems == {<<>>, <<Thing("b", "", "b", 0)>>, <<Thing("a", "a", "b", 0), Thing("b", "B", "arms", 0)>>}
PackEnchs == {
  <<[Blank EXCEPT !.name = "X", !.excl = {"z"}, !.refs = {"", "b"}], Whole>>,
  <<[Whole EXCEPT !.refs = {"#p", "q"}, !.platform = "PC"]>>,
  <<[Whole EXCEPT !.id = "m:z", !.base = 9, !.step = 12, !.excl = {"x"}], [Blank EXCEPT !.treasure = TRUE]>>,
  <<[Whole EXCEPT !.id = "n", !.refs = {"b"}, !.provided = TRUE, !.limited = 4], [Blank EXCEPT !.id = "n"]>>}
BadPacks == {Pack(<<>>, <<>>, <<[Whole EXCEPT !.excl = {"No id"}, !.refs = r]>>) : r \in {{"b"}, {"#s"}}}
  \cup {Pack(<<>>, <<Thing("b", "B", "", 1)>>, <<>>)}
Game == INSTANCE Registries WITH packs <- r1, owns <- r2, view <- r3,
  Builtin <- Pack("#s" :> Tagged(FALSE, {"m:a"}), <<Thing("m:a", "A", "arms", 9)>>,
    <<[Whole EXCEPT !.name = "x", !.excl = {"m:y"}],
      [Whole EXCEPT !.id = "m:y", !.refs = {"m:a", "#s"}, !.base = 5, !.step = 10]>>),
  Packs <- {Pack(t, i, e) : t \in PackTags, i \in PackItems, e \in PackEnchs} \cup BadPacks,
  Full <- ("a" :> "m:a") @@ ("b" :> "m:b") @@ ("x" :> "m:x") @@ ("y" :> "m:y") @@ ("z" :> "m:z")
    @@ ("n" :> "m:n") @@ ("q" :> "m:q"),
  Category <- ("arms" :> "#arms") @@ ("b" :> "#b") @@ ("" :> "#"), Own <- ("m:a" :> "#a") @@ ("m:b" :> "#b"),
  Lower <- ("x" :> "x") @@ ("X" :> "x") @@ ("A" :> "a") @@ ("a" :> "a") @@ ("B" :> "b") @@ ("" :> ""),
  Invalid <- {"No id", "#"}, Power <- ("m:a" :> 10) @@ ("m:b" :> 22), MaxLoads <- 2

(* Requests for a sword, another item and a book, with what fits, what      *)
(* conflicts, what is too high and what nobody knows; a registry larger     *)
(* than a set of enchantments can be, and one that is empty.                *)
Rule(max, on, supp, excl) == [max |-> max, mul |-> 3, platform |-> on, supp |-> supp, excl |-> excl]
Few == ("a" :> Rule(2, "all", {"#w"}, {"b"})) @@ ("b" :> Rule(1, "java", {"w", "v"}, {"a", "c"}))
Many == Few @@ ("c" :> Rule(9, "none", {"#w", "v"}, {"d"})) @@ ("d" :> Rule(2, "all", {"w"}, {"c"}))
Asked(id, enchs, ppn, dur) == [id |-> id, enchs |-> enchs, ppn |-> ppn, dur |-> dur]
Levels == {<<>>, "a" :> 1, ("b" :> 1) @@ ("z" :> 1), "c" :> 9, ("c" :> 2) @@ ("a" :> 2), "d" :> 1, "a" :> 3}
Offers(a, b) ==
  {[mode |-> "inventory", priorities |-> p,
    extra |-> <<Asked("enchanted", a, 1, 0), Asked("w", b, 9, 9), Asked("v", a, 0, 3),
                Asked("book", b, 0, 0), Asked("x", a, 0, 0)>>] : p \in {<<>>, <<5, 4, 3, 2>>}}
Adapter == INSTANCE CompactAdapter WITH registry <- r1, target <- r2, payload <- r3, platform <- r4,
  input <- r5, output <- r6,
  Sorted <- <<"a", "b", "c", "d">>, Registries <- {Few, Many, <<>>},
  Targets <- {Asked(id, e, p, 7) : id \in {"w", "v", "book"}, e \in Levels, p \in {1, 8}},
  Payloads <- {[mode |-> "direct", source |-> e] : e \in Levels} \cup UNION {Offers(a, b) : a, b \in Levels},
  Books <- {"book", "enchanted"}, Enchanted <- "enchanted", Known <- ("w" :> 9) @@ ("v" :> 8),
  TagsOf <- [id \in {"w", "v", "x", "book", "enchanted"} |-> IF id = "w" THEN {"#w"} ELSE {}],
  MaxEnchs <- 3, Byte <- 8, Half <- 8

From8 == r8 = 0 /\ r9 = 0
From4 == r4 = 0 /\ r5 = 0 /\ r6 = 0 /\ r7 = 0 /\ From8
StoresInit ==
  \/ scene = "flat" /\ Flat!MapInit /\ From4
  \/ scene = "transpositions" /\ Seen!TableInit /\ r6 = 0 /\ r7 = 0 /\ From8
  \/ scene = "chunks" /\ Chunks!PoolInit /\ From8
  \/ scene = "requests" /\ Api!ApiInit
  \/ scene = "replies" /\ Replies!StreamInit
  \/ scene = "files" /\ Static!FilesInit /\ r6 = 0 /\ r7 = 0 /\ From8
  \/ scene = "rates" /\ Rates!RateInit /\ r7 = 0 /\ From8
  \/ scene = "packs" /\ Game!RegistryInit /\ From4
  \/ scene = "adapter" /\ Adapter!AdapterInit /\ r7 = 0 /\ From8
StoresNext ==
  \/ scene = "flat" /\ Flat!MapNext /\ scene' = scene /\ UNCHANGED <<r4, r5, r6, r7, r8, r9>>
  \/ scene = "transpositions" /\ Seen!TableNext /\ scene' = scene /\ UNCHANGED <<r6, r7, r8, r9>>
  \/ scene = "chunks" /\ Chunks!PoolNext /\ scene' = scene /\ UNCHANGED <<r8, r9>>
  \/ scene = "requests" /\ Api!ApiNext /\ scene' = scene
  \/ scene = "replies" /\ Replies!StreamNext /\ scene' = scene
  \/ scene = "files" /\ Static!FilesNext /\ scene' = scene /\ UNCHANGED <<r6, r7, r8, r9>>
  \/ scene = "rates" /\ Rates!RateNext /\ scene' = scene /\ UNCHANGED <<r7, r8, r9>>
  \/ scene = "packs" /\ Game!RegistryNext /\ scene' = scene /\ UNCHANGED <<r4, r5, r6, r7, r8, r9>>
  \/ scene = "adapter" /\ Adapter!AdapterNext /\ scene' = scene /\ UNCHANGED <<r7, r8, r9>>

-----------------------------------------------------------------------------
\* FlatHashMap, TTTable and MemoryPool: a lookup finds what was stored, counts
\* are true, and no two items get the same memory, however often a container
\* is cleared, grown and used again.
ContainersAgree ==
  /\ scene = "flat" => Flat!FindsAgree /\ Flat!RoomIsLeft
  /\ scene = "transpositions" => Seen!LookupsAgree /\ Seen!CountsAgree
  /\ scene = "chunks" => Chunks!BlocksAreApart /\ Chunks!ChunksAreKept

\* One connection, its static files and its budget: the answers are those to
\* the requests however the bytes arrive, a 304 is true of the file, and no
\* bucket gives more than it had.
RequestsAreServedRight ==
  /\ scene = "replies" => Replies!RepliesFollowRequests
  /\ scene = "files" => Static!FilesAreServedRight
  /\ scene = "rates" => Rates!BudgetsAreKept

\* RegistryLoader and RegistryHelper: packs in layers refer to what is there,
\* take nothing from the game, and read the same when they are read again.
PacksHold ==
  scene = "packs" =>
    /\ Game!ViewRefersToItself /\ Game!PacksOnlyExtend /\ Game!LastPackRules
    /\ Game!ReloadChangesNothing /\ Game!PartsMakeTheWhole

\* CompactAdapter and ItemResolver: what a request asks for and offers comes
\* to the strategy and back with its numbers, its conflicts and its order, and
\* what is taken from an inventory is as good as all of it.
InputsAreFaithful ==
  /\ ResolverKeepsReach
  /\ scene = "adapter" => Adapter!ConflictsAreKept /\ Adapter!RequestIsKept /\ Adapter!ItemsAreKept

-----------------------------------------------------------------------------
VARIABLES
  profiles, current, undo, history, dirty, baselines, claimed, disk, writes, loose, trail,
  active, undoLog, depGraph, cache, sourced, steps, resolver

sqlOnly == <<current, undo, history, dirty, baselines, claimed, disk, writes, loose, trail>>
managerOnly == <<active, undoLog, depGraph, cache, sourced, steps>>
profileVars == <<profiles, sqlOnly, managerOnly, resolver>>
vars == <<scene, profileVars, searchVars, storeVars>>

(* Profiles for the statements: A refers to its own rows only, B has a      *)
(* category that is only shown; S and T are small.                          *)
Swords == ("#s" :> {"a"})
A == [ench |-> ("x" :> [excl |-> {"y"}, supp |-> {"#s"}]) @@ ("y" :> [excl |-> {}, supp |-> {"a"}]),
      eq |-> ("a" :> "#s"), tags |-> {"#s"}, res |-> [raw |-> Swords, cache |-> <<>>]]
B == [ench |-> <<>>, eq |-> ("a" :> "#old"),
      tags |-> {"#t"}, res |-> [raw |-> ("#t" :> {"b"}), cache |-> <<>>]]
S == [ench |-> <<>>, eq |-> ("a" :> "#s"), tags |-> {"#s"},
      res |-> [raw |-> ("#s" :> {"b"}), cache |-> <<>>]]
T == [ench |-> ("y" :> [excl |-> {}, supp |-> {"a"}]), eq |-> ("a" :> "#old"),
      tags |-> {}, res |-> [raw |-> <<>>, cache |-> <<>>]]
Both == {"strict", "deps", "ignore"}
Some == {{}, {"a"}, {"#s"}}
OwnFile == [n \in {"A", "B", "V"} |-> n]

Tables == INSTANCE SqlSession WITH TagIds <- {"#s", "#t"}, Enchs <- {"x"}, Equips <- {"a"},
  Legacy <- "#old", Unset <- "", Names <- <<"A">>, Loaded <- ("A" :> A), FileOf <- OwnFile,
  UndoCap <- 2, Supports <- Some, Values <- Some, Modes <- {}, MergesEmpty <- FALSE,
  Statements <- {"insert", "update", "delete"}, MaxWrites <- 3
Copies == INSTANCE SqlSession WITH TagIds <- {"#s", "#t"}, Enchs <- {"x", "y"}, Equips <- {"a"},
  Legacy <- "#old", Unset <- "", Names <- <<"A", "B">>, Loaded <- ("A" :> A) @@ ("B" :> B),
  FileOf <- OwnFile, UndoCap <- 2, Supports <- {}, Values <- {}, Modes <- Both, MergesEmpty <- FALSE,
  Statements <- {"delete", "copy", "merge"}, MaxWrites <- 2
Merges == INSTANCE SqlSession WITH TagIds <- {"#s", "#t"}, Enchs <- {"x", "y"}, Equips <- {"a"},
  Legacy <- "#old", Unset <- "", Names <- <<"A", "B">>, Loaded <- ("A" :> S) @@ ("B" :> T),
  FileOf <- OwnFile, UndoCap <- 2, Supports <- {}, Values <- {}, Modes <- {}, MergesEmpty <- FALSE,
  Statements <- {"delete", "merge", "select", "use", "save"}, MaxWrites <- 3
Session == INSTANCE SqlSession WITH TagIds <- {"#s"}, Enchs <- {}, Equips <- {"a"},
  Legacy <- "#old", Unset <- "", Names <- <<"A", "F:", "F?", "F_">>,
  Loaded <- ("A" :> S) @@ ("F_" :> S),
  FileOf <- ("A" :> "A") @@ ("F:" :> "F_") @@ ("F?" :> "F_") @@ ("F_" :> "F_"),
  UndoCap <- 2, Supports <- {}, Values <- {}, Modes <- {}, MergesEmpty <- FALSE,
  Statements <- {"delete", "fork", "merge", "refuse", "use", "save"}, MaxWrites <- 3
Row(v) == [val |-> v, excl |-> {}, supp |-> {"q"}]
Manager == INSTANCE ProfileManager WITH Names <- {"V", "A", "B"}, Vanilla <- "V",
  RowsOf <- ("x" :> {Row(1), [Row(2) EXCEPT !.excl = {"z"}]})
            @@ ("q" :> {[val |-> 1, excl |-> {}, supp |-> {}]}),
  Files <- {[name |-> "A", profile |-> [deps |-> <<"B">>, rows |-> ("x" :> Row(2))]]},
  Groups <- {<<"V">>, <<"A">>, <<"B">>, <<"A", "B">>},
  Requests <- {<<>>, <<"A">>, <<"B">>}, MaxCalls <- 3

Tags == INSTANCE TagResolver WITH TagIds <- {"#s", "#t", "#u"}
TagValues == {{"a"}, {"b", "#s"}, {"#t", "#u"}}
TagsNext ==
  /\ \/ \E t \in {"#s", "#t", "#u"}, values \in TagValues, replace \in BOOLEAN :
          resolver' = Tags!LoadTag(resolver, t, values, replace)
     \/ \E ts \in SUBSET {"#s", "#t", "#u"} : resolver' = Tags!Looked(resolver, ts)

NoSql ==
  /\ current = 0 /\ undo = 0 /\ history = 0 /\ dirty = 0 /\ baselines = 0 /\ claimed = 0
  /\ disk = 0 /\ writes = 0 /\ loose = 0 /\ trail = 0
NoManager == active = 0 /\ undoLog = 0 /\ depGraph = 0 /\ cache = 0 /\ sourced = 0 /\ steps = 0

NoSearch == input = 0 /\ work = 0 /\ reports = 0 /\ status = 0
NoStores == r1 = 0 /\ r2 = 0 /\ r3 = 0 /\ From4
NoProfiles == profiles = 0 /\ NoSql /\ NoManager /\ resolver = 0

SqlInit ==
  /\ \/ scene = "tables" /\ Tables!SqlInit
     \/ scene = "copies" /\ Copies!SqlInit
     \/ scene = "merges" /\ Merges!SqlInit
     \/ scene = "session" /\ Session!SqlInit
  /\ NoManager /\ resolver = 0

Init ==
  \/ SearchInit /\ NoProfiles /\ NoStores
  \/ StoresInit /\ NoProfiles /\ NoSearch
  \/ /\ NoSearch /\ NoStores
     /\ \/ SqlInit
        \/ scene = "manager" /\ Manager!ManagerInit /\ NoSql /\ resolver = 0
        \/ scene = "tags" /\ resolver = Tags!NoResolver /\ profiles = 0 /\ NoSql /\ NoManager

InSql == scene' = scene /\ UNCHANGED <<managerOnly, resolver, searchVars, storeVars>>
InManager == scene' = scene /\ UNCHANGED <<sqlOnly, resolver, searchVars, storeVars>>

Next ==
  \/ scene = "tables" /\ Tables!SqlNext /\ InSql
  \/ scene = "copies" /\ Copies!SqlNext /\ InSql
  \/ scene = "merges" /\ Merges!SqlNext /\ InSql
  \/ scene = "session" /\ Session!SqlNext /\ InSql
  \/ scene = "manager" /\ Manager!ManagerNext /\ InManager
  \/ scene = "tags" /\ TagsNext /\ scene' = scene
       /\ UNCHANGED <<profiles, sqlOnly, managerOnly, searchVars, storeVars>>
  \/ SearchNext /\ UNCHANGED <<profileVars, storeVars>>
  \/ StoresNext /\ UNCHANGED <<profileVars, searchVars>>

Spec == Init /\ [][Next]_vars

-----------------------------------------------------------------------------
\* TagResolver and ProfileManager, called directly and by requests: what a
\* cache holds is what would be computed.
CachesAreFresh ==
  /\ scene = "manager" => Manager!ViewsAreFresh
  /\ scene = "requests" => Api!ViewsAreFresh
  /\ scene = "tags" =>
       \A t \in DOMAIN resolver.cache : resolver.cache[t] = Tags!Members(resolver.raw, t)

\* SqlExecutor: no sequence of statements but with COPY WITH IGNORE leaves a
\* row that refers to nothing; nor do packs that are loaded over one another
\* (PacksHold).
ReferencesHold ==
  /\ scene \in {"tables", "copies", "merges", "session"} => Copies!ReferencesHold
  /\ PacksHold

\* SqlSession: a profile that is not marked dirty is what a reload would read,
\* but for a loaded one whose file a fork of another name has taken.
CleanIsSaved ==
  /\ scene = "session" => Session!CleanIsSaved
  /\ scene \in {"tables", "copies", "merges"} => Copies!CleanIsSaved

\* SqlExecutor and ProfilesController: UNDO restores the profiles as they were,
\* tag values included, and a request that is refused leaves them as they are.
RollbacksAreExact ==
  [][(/\ scene \in {"tables", "copies", "merges", "session"} => Copies!UndoIsExact
      /\ scene = "requests" => Api!RefusalsChangeNothing)]_vars
=============================================================================
