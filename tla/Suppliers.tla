----------------------------- MODULE Suppliers -----------------------------
(***************************************************************************)
(* Supplier links the crawler drafts and people decide.  Every crawl       *)
(* counts the articles that name a supplier with a programme and upserts   *)
(* one row per pair; reviewers, on the site or with the script, approve a  *)
(* row, which writes the link, or reject it.  A review is several          *)
(* statements, each a call that may be the last.                           *)
(***************************************************************************)
EXTENDS Integers, FiniteSets

CONSTANTS
  Pair,         \* supplier and programme
  Listed,       \* SUBSET Pair: linked in the built-in directory
  OnFile,       \* SUBSET Pair: the supplier is in the suppliers table
  Reviewer,
  NoPair,
  MaxMentions,  \* bound: articles of one crawl about a pair
  MaxDrafts,    \* bound: drafting writes
  MaxReviews    \* bound: reviews begun

(* What the configurations keep to. *)
SupplierAssumption ==
  /\ NoPair \notin Pair
  /\ MaxMentions \in Nat /\ MaxDrafts \in Nat /\ MaxReviews \in Nat

VARIABLES
  candidate,   \* supplier_candidates: [Pair -> [status, mentions]]
  links,       \* program_suppliers written by reviews
  review,      \* [Reviewer -> [step, pair, verdict]]
  drafts, reviews

supplierVars == <<candidate, links, review, drafts, reviews>>

NoReview == [step |-> "idle", pair |-> NoPair, verdict |-> "none"]
Undrafted == [status |-> "absent", mentions |-> 0]

SupplierInit ==
  /\ candidate = [p \in Pair |-> Undrafted]
  /\ links = {}
  /\ review = [r \in Reviewer |-> NoReview]
  /\ drafts = 0 /\ reviews = 0

(***************************************************************************)
(* The crawl.  Counts are those of this crawl alone, and replace the row's *)
(* while it is pending.  A write that fails is a row left as it was.       *)
(***************************************************************************)
Upserted(row, n) ==
  IF row.status \in {"absent", "pending"} THEN [status |-> "pending", mentions |-> n] ELSE row

Draft(p, n) ==
  /\ drafts < MaxDrafts /\ drafts' = drafts + 1
  /\ p \notin Listed
  /\ candidate' = [candidate EXCEPT ![p] = Upserted(@, n)]
  /\ UNCHANGED <<links, review, reviews>>

(***************************************************************************)
(* A review: the candidate is read while pending, then for an approval the *)
(* supplier's tier, the link is written, and the status last.              *)
(***************************************************************************)
FirstStep(verdict) == IF verdict = "approved" THEN "tier" ELSE "status"

Consider(r, p, verdict) ==
  /\ reviews < MaxReviews /\ reviews' = reviews + 1
  /\ review[r].step = "idle"
  /\ candidate[p].status = "pending"
  /\ review' = [review EXCEPT ![r] = [step |-> FirstStep(verdict), pair |-> p, verdict |-> verdict]]
  /\ UNCHANGED <<candidate, links, drafts>>

ReadTier(r) ==
  /\ review[r].step = "tier"
  /\ review' = [review EXCEPT ![r] = IF review[r].pair \in OnFile THEN [@ EXCEPT !.step = "link"]
                                     ELSE NoReview]
  /\ UNCHANGED <<candidate, links, drafts, reviews>>

WriteLink(r) ==
  /\ review[r].step = "link"
  /\ links' = links \cup {review[r].pair}
  /\ review' = [review EXCEPT ![r].step = "status"]
  /\ UNCHANGED <<candidate, drafts, reviews>>

WriteStatus(r) ==
  /\ review[r].step = "status"
  /\ candidate' = [candidate EXCEPT ![review[r].pair].status = review[r].verdict]
  /\ review' = [review EXCEPT ![r] = NoReview]
  /\ UNCHANGED <<links, drafts, reviews>>

(* A statement that fails, or a script that is stopped, ends the review.   *)
Abandon(r) ==
  /\ review[r].step # "idle"
  /\ review' = [review EXCEPT ![r] = NoReview]
  /\ UNCHANGED <<candidate, links, drafts, reviews>>

SupplierNext ==
  \/ \E p \in Pair, n \in 1..MaxMentions : Draft(p, n)
  \/ \E r \in Reviewer, p \in Pair, verdict \in {"approved", "rejected"} : Consider(r, p, verdict)
  \/ \E r \in Reviewer : ReadTier(r)
  \/ \E r \in Reviewer : WriteLink(r)
  \/ \E r \in Reviewer : WriteStatus(r)
  \/ \E r \in Reviewer : Abandon(r)

SupplierSpec == SupplierInit /\ [][SupplierNext]_supplierVars

-----------------------------------------------------------------------------
(* An approved candidate is in the directory, wherever its review stopped  *)
(* (curatorSupplierCandidateHandler.ts:120-138).                           *)
ApprovedIsLinked == \A p \in Pair : candidate[p].status = "approved" => p \in links
=============================================================================
