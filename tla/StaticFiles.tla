------------------------------ MODULE StaticFiles ------------------------------
(* StaticFileServer: the resources in the binary and, after them, the files  *)
(* below a directory, for clients that revalidate what they have. A path is  *)
(* the sequence of its segments. A file is its version, which every write    *)
(* advances and which stands for its size and time of change. A request      *)
(* looks at the file first and reads it afterwards; writes come between.     *)
EXTENDS Naturals, Sequences, TLC

CONSTANTS
  Paths,      \* the paths that are asked for, below the prefix
  Embedded,   \* the keys of the embedded resources
  Folders,    \* the directories of the disk
  Links,      \* key -> where the link of that name leads, or Outside
  Outside,    \* a key that is not below the root
  Encoded,    \* segments with an encoded slash, a backslash or a NUL in them
  Files,      \* the keys of the files that may be there
  MaxVersion  \* bound: writes of a file

VARIABLES
  disk,   \* version of every file, 0 when there is none
  asked,  \* the request being served: its method, path and validator
  found,  \* what the request has seen of its file: its key and its version
  kept,   \* what the client has: a path, the ETag and the body it came with
  served  \* the status of the last answer and whether it had a body

filesVars == <<disk, asked, found, kept, served>>

Idle == [method |-> "none"]
Nowhere == [key |-> <<>>, version |-> 0]
Index(key) == Append(key, "index.html")
NoCopy == [path |-> <<"none">>, tag |-> <<>>, body |-> <<>>]

\* What a key leads to: a link is followed, to its end, before it is judged.
Canonical(key) == IF key \in DOMAIN Links THEN Links[key] ELSE key

\* Mutant: what a link leads to is not looked at.
Located_Anywhere(key) ==
  IF Canonical(key) \in Folders THEN Canonical(Index(key)) ELSE Canonical(key)

\* serve_disk(): the file that a key stands for; a directory stands for its
\* index, and what is not below the root for nothing.
Located(key) ==
  IF Canonical(key) = Outside THEN <<>>
  ELSE IF Canonical(key) \notin Folders THEN Canonical(key)
  ELSE IF Canonical(Index(key)) \in Folders \cup {Outside} THEN <<>>
  ELSE Canonical(Index(key))

\* sanitize_relative(): no empty segment, none that climbs, none that turns
\* into several when it is decoded. <<"">> is the path "/".
Sanitized(path) ==
  IF path \in {<<>>, <<"">>} THEN <<"index.html">>
  ELSE IF \E i \in DOMAIN path : path[i] \in {"", ".."} \cup Encoded THEN <<>> ELSE path

-----------------------------------------------------------------------------
Tag(where, key, version) == <<where, key, version>>
\* The tag of the resource itself is all that a match looks at.
NotModified(tag) == asked.validator # <<>> /\ asked.validator = tag

\* A HEAD has the length of the body and no body.
Served(tag, body) ==
  /\ served' = IF NotModified(tag) THEN <<304, FALSE>> ELSE <<200, asked.method = "GET">>
  /\ kept' = IF NotModified(tag) \/ asked.method # "GET" THEN kept
             ELSE [path |-> asked.path, tag |-> tag, body |-> body]
  /\ asked' = Idle /\ found' = Nowhere
NotFound == served' = <<404, TRUE>> /\ asked' = Idle /\ found' = Nowhere /\ UNCHANGED kept

FilesInit ==
  /\ disk \in [Files -> 0 .. 1] /\ asked = Idle /\ found = Nowhere /\ kept = NoCopy /\ served = <<0, FALSE>>

\* A client revalidates what it has, or asks anew.
Ask(method, path) ==
  /\ asked = Idle
  /\ \E tag \in {<<>>} \cup (IF kept.path = path THEN {kept.tag} ELSE {}) :
       asked' = [method |-> method, path |-> path, validator |-> tag]
  /\ UNCHANGED <<disk, found, kept, served>>

\* serve(): everything but the disk is answered at once.
Serve ==
  /\ asked # Idle /\ found = Nowhere
  /\ \E key \in {Sanitized(asked.path)} :
       IF asked.method \notin {"GET", "HEAD"} \/ key = <<>> THEN NotFound
       ELSE IF key \in Embedded THEN Served(Tag("embedded", key, 0), Tag("embedded", key, 0))
       ELSE IF Located(key) = <<>> \/ (Located(key) \in Files /\ disk[Located(key)] = 0)
            \/ Located(key) \notin Files \cup {Outside} THEN NotFound
       ELSE /\ found' = [key |-> Located(key), version |-> IF Located(key) = Outside THEN 0 ELSE disk[Located(key)]]
            /\ UNCHANGED <<asked, kept, served>>
  /\ UNCHANGED disk

\* Mutant: the tag is made of what the file is after it was read.
ReadFile_TagLast ==
  /\ found # Nowhere
  /\ IF found.key \in Files /\ disk[found.key] = 0 THEN NotFound
     ELSE \E v \in {IF found.key = Outside THEN 0 ELSE disk[found.key]} :
            Served(Tag("disk", found.key, v), Tag("disk", found.key, found.version))
  /\ UNCHANGED disk

\* The file is read unless the client has it; it may have been written to, or
\* be gone, since its tag was made.
ReadFile ==
  /\ found # Nowhere
  /\ LET tag == Tag("disk", found.key, found.version) IN
     IF ~NotModified(tag) /\ found.key \in Files /\ disk[found.key] = 0 THEN NotFound
     ELSE \E v \in {IF found.key = Outside THEN 0 ELSE disk[found.key]} :
            Served(tag, Tag("disk", found.key, v))
  /\ UNCHANGED disk

\* Somebody else writes or removes a file; a version is never seen again.
Write(f) ==
  /\ disk[f] \in 1 .. MaxVersion - 1 /\ disk' = [disk EXCEPT ![f] = @ + 1]
  /\ UNCHANGED <<asked, found, kept, served>>
Remove(f) ==
  /\ disk[f] # 0 /\ disk' = [disk EXCEPT ![f] = 0]
  /\ UNCHANGED <<asked, found, kept, served>>

FilesNext ==
  \/ \E m \in {"GET", "HEAD", "POST"}, p \in Paths : Ask(m, p)
  \/ Serve \/ ReadFile
  \/ \E f \in Files : Write(f) \/ Remove(f)

-----------------------------------------------------------------------------
(* What a client gets comes from the place its path names, inside the root, *)
(* and the resources of the binary hide the files. When it is told that     *)
(* what it has is still good, it has the body that the file had when it was *)
(* looked at.                                                               *)
FilesAreServedRight ==
  /\ kept # NoCopy =>
       /\ kept.body[1] = "embedded" <=> Sanitized(kept.path) \in Embedded
       /\ kept.body[1] = "disk" => kept.body[2] \in Files
       /\ kept.body[2] \in {Sanitized(kept.path), Located(Sanitized(kept.path))}
  /\ found # Nowhere /\ NotModified(Tag("disk", found.key, found.version)) =>
       kept.path = asked.path /\ kept.body = Tag("disk", found.key, found.version)
=============================================================================
