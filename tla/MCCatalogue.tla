------------------------------ MODULE MCCatalogue ------------------------------
(* Small instances of Catalogue for TLC. *)
EXTENDS Catalogue, TLC

CONSTANTS a1, t1

Payment(mode, donation) ==
  [mode |-> mode, donation |-> donation, tags |-> None, prices |-> None]
Sale(names, chains) ==
  [mode |-> "absent", donation |-> "absent", tags |-> names, prices |-> chains]

\* Updates of the payment, of the tags and of the prices, and games to be
\* created; chain 2 is configured, but has no provider.
SmallDtos ==
  {Payment("absent", "invalid"), Payment("absent", a1), Payment("PAID", a1),
   Payment("DISABLE_PAYMENTS", "absent")}
  \cup {Sale(<<t1>>, None), Sale(<<>>, <<>>), Sale(None, <<1>>), Sale(None, <<1, 2>>)}
  \cup {[mode |-> "FREE", donation |-> "absent", tags |-> <<>>, prices |-> None],
        [mode |-> "FREE", donation |-> "absent", tags |-> <<t1, t1>>, prices |-> <<1>>]}

Symmetry == Permutations(Requests)

=============================================================================
