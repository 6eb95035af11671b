------------------------------ MODULE MCEvidence ------------------------------
(***************************************************************************)
(* An output of three claims: one with a name and a number, one without    *)
(* specifics, one whose words all fall away as stopwords.  The texts range *)
(* from a verbatim quotation to silence, the tiers over both sides of the  *)
(* trusted boundary.                                                       *)
(***************************************************************************)
EXTENDS EvidenceAudit

MCClaims ==
  <<[id |-> "c1", entities |-> <<"name">>, numbers |-> <<"number">>, words |-> <<"w1">>],
    [id |-> "c2", entities |-> <<>>, numbers |-> <<>>, words |-> <<"w1", "w2", "w3">>],
    [id |-> "c3", entities |-> <<>>, numbers |-> <<>>, words |-> <<>>]>>

Text(quotes, restates, mentions, words) ==
  [quotes |-> quotes, restates |-> restates, mentions |-> mentions, words |-> words]

MCTexts ==
  {Text({"c1"}, {"c1"}, {"name", "number"}, {"w1"}),   \* quotes the first claim
   Text({}, {"c1"}, {"name"}, {"w1"}),                 \* restates it, number folded away
   Text({}, {}, {"name", "number"}, {}),               \* both its specifics
   Text({}, {}, {"name"}, {"w1"}),                     \* only its name
   Text({}, {}, {"number"}, {"w2"}),                   \* only its number
   Text({}, {}, {}, {"w1", "w2", "w3"}),               \* all the words of the second
   Text({}, {}, {}, {}),                               \* about something else
   Text({"c3"}, {}, {}, {"w3"})}                       \* quotes the third

MCChunks == [id : {"k1", "k2", "k3"}, tier : {3, 4}, text : MCTexts]
===============================================================================
