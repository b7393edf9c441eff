----------------------------- MODULE MCCatalog ------------------------------
(* One model name and one request at a time: what becomes of an approved   *)
(* deployment does not depend on how many there are.                       *)
EXTENDS Catalog

MCNames == {"a"}
MCSlug == [n \in MCNames |-> "a"]
=============================================================================
