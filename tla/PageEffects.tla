----------------------------- MODULE PageEffects -----------------------------
(***************************************************************************)
(* The form in which the handlers of a page are written: what one run of    *)
(* JavaScript, up to its next await, does. "page" is the page's new state,  *)
(* "send" the requests it issues (or local work it awaits), "go" the route   *)
(* it navigates to. A handler of a page that is gone still sends and        *)
(* navigates; what it sets is lost.                                         *)
(***************************************************************************)
EXTENDS Naturals, Sequences

Route(at, id) == [at |-> at, id |-> id]
Stay == Route("stay", 0)

\* What is asked for and the things it is about; "to", "from" and "known" are what
\* else the handler that waits has in its closure.
Req(op, ids) == [op |-> op, ids |-> ids, to |-> 0, from |-> "page", known |-> {}]

Shows(p) == [page |-> p, send |-> <<>>, go |-> Stay]
Asks(p, req) == [page |-> p, send |-> <<req>>, go |-> Stay]
Sends(p, op, ids) == Asks(p, Req(op, ids))
Goes(p, to) == [page |-> p, send |-> <<>>, go |-> to]
Nothing(p) == Shows(p)

The(ids) == CHOOSE i \in ids : TRUE

\* What can be pressed: the effects S when the guard holds.
When(guard, S) == IF guard THEN S ELSE {}
=============================================================================
