----------------------------- MODULE MCListPage -----------------------------
(* All list views, on a collection of two documents and room for a third. *)
EXTENDS ListPage
=============================================================================
