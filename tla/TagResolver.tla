----------------------------- MODULE TagResolver -----------------------------
(* TagResolver: the values of each tag as written (raw), items and other     *)
(* tags, and the expansions it has computed so far (cache).                  *)
EXTENDS Naturals, FiniteSets, TLC

CONSTANT TagIds

NoResolver == [raw |-> <<>>, cache |-> <<>>]

\* The breadth-first walk from a tag, undefined tags included.
Nested(raw, t) == IF t \in DOMAIN raw THEN raw[t] \cap TagIds ELSE {}
Reached(raw, t) ==
  LET within[n \in 0 .. Cardinality(TagIds)] ==
        IF n = 0 THEN {t}
        ELSE within[n - 1] \cup UNION {Nested(raw, u) : u \in within[n - 1]}
  IN within[Cardinality(TagIds)]

\* What a defined tag stands for.
Members(raw, t) == UNION {raw[u] : u \in Reached(raw, t) \cap DOMAIN raw} \ TagIds

\* resolve(): the answer, and the cache it leaves. A miss is not cached.
Resolve(r, t) ==
  IF t \in DOMAIN r.cache THEN r.cache[t]
  ELSE IF t \in DOMAIN r.raw THEN Members(r.raw, t) ELSE {}
Looked(r, ts) ==
  [r EXCEPT !.cache = @ @@ [t \in (ts \cap DOMAIN r.raw) |-> Resolve(r, t)]]

\* tags_of(): every tag whose expansion holds the item.
TagsOf(r, item) == {t \in DOMAIN r.raw : item \in Resolve(r, t)}

\* load_tag_json(): the values of a file replace the old ones or join them.
LoadTag(r, t, values, replace) ==
  LET old == IF replace \/ t \notin DOMAIN r.raw THEN {} ELSE r.raw[t]
  IN [raw |-> (t :> (values \cup old)) @@ r.raw, cache |-> <<>>]

\* add_tag(): only the expansion of the tag itself is forgotten.
AddTag(r, t, values) ==
  [raw |-> (t :> values) @@ r.raw,
   cache |-> [u \in DOMAIN r.cache \ {t} |-> r.cache[u]]]

RawValues(r, t) == IF t \in DOMAIN r.raw THEN r.raw[t] ELSE {}
=============================================================================
