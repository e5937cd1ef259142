------------------------------ MODULE MCUpdate ------------------------------
(* Update with offers that differ in what a judgment tells apart. *)
EXTENDS Update

Envelope(v, by) == [version |-> v, by |-> by, sound |-> TRUE]

CatalogOf(v, by, ends, names) ==
  [version |-> v, by |-> by, ends |-> ends, names |-> names, replaces |-> {2}, oldest |-> 1]

(* A catalog of both releases that runs out, one that goes back to the older
   release under the next root, and one without the release to go back to. *)
SomeOffers ==
  {[roots |-> <<>>, version |-> 2, catalog |-> CatalogOf(1, 1, 1, {1, 2})],
   [roots |-> <<Envelope(2, 1)>>, version |-> 1, catalog |-> CatalogOf(2, 2, 2, {1, 2})],
   [roots |-> <<Envelope(2, 1)>>, version |-> 2, catalog |-> CatalogOf(2, 2, 2, {2})]}

(* A root handed over with a catalog that the root before signed, and with
   none. *)
RootOffers ==
  {[roots |-> <<>>, version |-> 2, catalog |-> CatalogOf(1, 1, 2, {1, 2})],
   [roots |-> <<Envelope(2, 1)>>, version |-> 2, catalog |-> CatalogOf(1, 1, 2, {1, 2})],
   [roots |-> <<Envelope(2, 1)>>, version |-> None, catalog |-> NoCatalog]}
=============================================================================
