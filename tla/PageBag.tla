------------------------------ MODULE PageBag ------------------------------
(***************************************************************************)
(* pagination.Bag of the SDK: the stack of listings that a page token of a *)
(* builder still has to read.  A bag is the sequence of its page states,   *)
(* the current one last; the token a bag marshals to is the bag itself,    *)
(* and the empty bag is the empty token.  A page state is a listing and    *)
(* the page of it to read next; the link after a last page is NoLink.      *)
(***************************************************************************)
EXTENDS Sequences, Naturals

NoPages == <<>>
NoLink == 0

Top(bag) == bag[Len(bag)]
Rest(bag) == SubSeq(bag, 1, Len(bag) - 1)

PageOf(listing, n) == [listing |-> listing, page |-> n]
Push(bag, listing) == Append(bag, PageOf(listing, 1))

\* Bag.NextToken on a bag with a current state.
NextToken(bag, link) ==
  IF link = NoLink THEN Rest(bag)
  ELSE Append(Rest(bag), [Top(bag) EXCEPT !.page = link])
=============================================================================
