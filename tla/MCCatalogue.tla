----------------------------- MODULE MCCatalogue ----------------------------
(***************************************************************************)
(* Listing for TLC.  Every operation meets those it shares rows with: two  *)
(* PATCHes and a delete of a project; uploads, jobs and deletes;           *)
(* presigned uploads, confirmations and deletes; a listing and its table.  *)
(***************************************************************************)
EXTENDS Listing, TLC

Mixes == {{"update", "delete_project"},
          {"upload", "infer", "delete_asset", "delete_project"},
          {"presign", "confirm", "delete_asset", "delete_project"},
          {"presign", "delete_asset", "list"}}

CatSymmetry == Permutations(User) \cup Permutations(Project) \cup Permutations(Request)
=============================================================================
