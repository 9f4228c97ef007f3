----------------------------- MODULE MCListings -----------------------------
(* Listings with one seller and one animal, two listings of one type, and   *)
(* two workers, the first of which has two connections and two ticks.       *)
EXTENDS Listings, TLC

CONSTANTS a1, a2, b1,  \* connections
          x1, x2, y1   \* ticks

MCPoolOf == [c \in {a1, a2, b1} |-> IF c = b1 THEN 2 ELSE 1]
MCHomeOf == [j \in {x1, x2, y1} |-> IF j = y1 THEN 2 ELSE 1]

MCSellerOf == [l \in Listing |-> "seller"]
MCAnimalOf == [l \in Listing |-> "animal"]
MCTypeOf == [l \in Listing |-> "sale"]

Of(status, approved, expires) == [status |-> status, approved |-> approved, expires |-> expires]
MCStored == {Absent, Of("ACTIVE", TRUE, "past")}
MCWritten == {Of("DRAFT", FALSE, "never"), Of("ACTIVE", FALSE, "later"),
              Of("ACTIVE", TRUE, "later"), Of("SOLD", TRUE, "past")}

(* Sessions of clients, the two listings, and the connections and ticks of   *)
(* the first worker are interchangeable.                                    *)
Symmetry ==
  Permutations(Client) \cup Permutations(Listing) \cup Permutations({a1, a2}) \cup Permutations({x1, x2})
=============================================================================
