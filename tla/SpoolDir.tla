------------------------------ MODULE SpoolDir ------------------------------
(***************************************************************************)
(* The directory the extension and the helper share: "<id>.req.json" files *)
(* written by the one, "<id>.reply.json" files written by the other.       *)
(***************************************************************************)
EXTENDS Integers, FiniteSets

CONSTANTS Ids,          \* request ids (UUIDs; the model reuses forgotten ones)
          Identities,   \* process ancestries that read files
          Paths,        \* files under a "prompt" glob
          ChainOf,      \* identity -> identity_key
          ExeOf,        \* identity -> exe_only_key
          Empty         \* the empty string, as a key or as a path

ASSUME SpoolDirAssumption ==
  /\ Empty \notin Paths
  /\ DOMAIN ChainOf = Identities /\ DOMAIN ExeOf = Identities

VARIABLES reqs,      \* request files
          replies    \* reply files; "about" is what the user had been asked

Decisions == {"allow", "deny"}
Scopes    == {"once", "always", "always-exe"}

Subjects == [ident: Identities, path: Paths]

RequestFile == [id: Ids, about: Subjects, age: Nat, shown: Nat]
ReplyFile   == [id: Ids, about: Subjects, decision: Decisions, scope: Scopes,
                whole: BOOLEAN]

IdsOf(files) == {f.id : f \in files}

Without(files, id) == {f \in files : f.id # id}
=============================================================================
