------------------------------ MODULE MCMessages -----------------------------
(* Ask keys around both bounds, and some that are none.                      *)
EXTENDS MCTypes, Messages

MCAskTexts ==
  {Decimal(n) : n \in {0 - 1, 0, INT_MAX, INT_MAX + 1, UINT_MAX, UINT_MAX + 1}}
    \cup {<<>>, <<MINUS>>, <<120>>}
=============================================================================
