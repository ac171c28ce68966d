----------------------------- MODULE MCRequest -----------------------------
(* Instances of Request for TLC. *)
EXTENDS Request

CONSTANTS p1, p2

MCProc == {p1, p2}

Ask(repo, page, h, id, method, cookie) ==
  [query |-> [repo |-> repo, page |-> page, h |-> h, id |-> id],
   method |-> method, cookie |-> cookie]

Tree   == Ask(TRUE, "tree", "main", "none", "GET", TRUE)
Object == Ask(TRUE, "tree", "none", "sha", "GET", TRUE)

\* The same page by GET and HEAD, with and without a valid cookie, pages of
\* all lifetimes, the index, and a login.
MCRequest ==
  {Tree, [Tree EXCEPT !.cookie = FALSE], [Tree EXCEPT !.method = "HEAD"], Object,
   Ask(FALSE, "none", "none", "none", "GET", TRUE),
   Ask(FALSE, "login", "none", "none", "POST", FALSE)}

MCNever == -1
=============================================================================
