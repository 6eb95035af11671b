----------------------------- MODULE MCExtraction -----------------------------
(***************************************************************************)
(* Every output of up to MaxLength symbols made of these pieces.           *)
(***************************************************************************)
EXTENDS ClaimExtraction

MCPieces ==
  {<<"Fact">>, <<"fact">>, <<"Dr", "period">>, <<"perhaps">>, <<"period">>, <<"question">>,
   <<"quote">>, <<"space">>, <<"newline">>, <<"fence", "newline">>, <<"bullet", "space">>, <<"bar">>}
===============================================================================
