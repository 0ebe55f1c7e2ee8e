---------------------------- MODULE MCGrantViews ----------------------------
(***************************************************************************)
(* Scenarios for GrantViews.  The chain is short in each, so that TLC can  *)
(* explore every overlap of the page's reads with it.                      *)
(***************************************************************************)
EXTENDS GrantViews

An(id, kind, g, l) ==
  [id |-> id, kind |-> kind, grant |-> g, ledger |-> l, total |-> 0, milestone |-> 0,
   funded |-> FALSE]

Created(id, g, l)         == An(id, "GrantCreated", g, l)
Contribution(id, g, l, t) == [An(id, "ContributionMade", g, l) EXCEPT !.total = t]
Finalized(id, g, l, f)    == [An(id, "FundingFinalized", g, l) EXCEPT !.funded = f]
Cancelled(id, g, l)       == An(id, "GrantCancelled", g, l)
Vote(id, g, l, m)         == [An(id, "MilestoneVoteCast", g, l) EXCEPT !.milestone = m]
Approved(id, g, l, m)     == [An(id, "MilestoneApproved", g, l) EXCEPT !.milestone = m]

Of(h, f, r) == [events |-> h, failures |-> f, requests |-> r]

\* Two contributions in one ledger, while the user asks for a fresh read.
Funding == <<Created(1, 1, 1), Contribution(2, 1, 1, 1), Contribution(3, 1, 1, 2)>>

\* From a contribution to the release of the only milestone.
Delivery == <<Created(1, 1, 0), Contribution(2, 1, 0, 1), Finalized(3, 1, 1, TRUE),
              Vote(4, 1, 1, 0), Approved(5, 1, 1, 0)>>

\* Two grants appear and one is cancelled, while up to two calls to the RPC node
\* fail: with batches of one, that is where a scan gives up.
TwoGrants == <<Created(1, 1, 1), Created(2, 2, 1), Cancelled(3, 1, 1)>>

\* A grant past the cap, which the page can learn of by its event alone, and
\* whose id the page then knows.
PastTheCap == <<Created(1, 1, 0), Created(2, 2, 0), Created(3, 3, 1),
                Contribution(4, 3, 1, 1)>>

MCScenarios == <<Of(Funding, 0, 1), Of(Delivery, 1, 0), Of(TwoGrants, 2, 0),
                 Of(PastTheCap, 0, 0)>>
MCVoting    == <<Of(Delivery, 0, 0)>>
=============================================================================
