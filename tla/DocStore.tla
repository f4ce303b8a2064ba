------------------------------ MODULE DocStore ------------------------------
(***************************************************************************)
(* A directory of JSON documents (pool-identity store.rs): a document is   *)
(* written whole, to a temporary file that is synced and renamed, so a     *)
(* crash leaves the old one or the new one.  The path of a document is a   *)
(* tuple that begins with the name of its directory.                       *)
(***************************************************************************)
EXTENDS Naturals, Sequences, TLC

CONSTANT None

VARIABLE store   \* the documents, by path

StoreInit == store = <<>>

(* read_doc *)
ReadDoc(path) == IF path \in DOMAIN store THEN store[path] ELSE None

(* The documents of a directory: list.                                     *)
List(dir) == {path \in DOMAIN store : path[1] = dir}

(* A document to be written, and write_doc.                                *)
Doc(path, content) == [path |-> path, content |-> content]
Written(doc) == (doc.path :> doc.content) @@ store

=============================================================================
