------------------------------- MODULE MCTypes -------------------------------
(* A 12-bit int, a 21-bit long long; texts around every bound, all short     *)
(* texts, and every one-byte change of a DateTime.                           *)
EXTENDS Types

MCLLONG_MAX == 1048575
MCINT_MAX   == 2047
MCUINT_MAX  == 4095

Bounds == {LLONG_MIN, INT_MIN, -1000, -1, 0, 1, 1000, INT_MAX, UINT_MAX, LLONG_MAX}
MCNumbers == {b + d : b \in Bounds, d \in {-1, 0, 1}}

MCDoubles ==
  [kind : {"finite"}, neg : BOOLEAN, num : {0, 1, 9, 10, 99, 100, 101, 1250, 99999}]
    \cup [kind : {"nan", "inf", "-inf"}]
\* 4 digits, a dot and 2 more fill all but one of 8 bytes; 99999 needs one digit less
LongDoubles == [kind : {"finite"}, neg : BOOLEAN, num : {0, 100, 99999, 999999, 1000000}]

ADate == <<2012, 2, 29, 23, 59, 0, 999999>>
Edge(i) == {Fields[i].lo - 1, Fields[i].lo, Fields[i].hi, Fields[i].hi + 1}
MCDateTimes ==
  {[date |-> ADate, utc_offset |-> o] :
      o \in {-1440, -1439, -600, -90, -60, -59, -1, 0, 1, 59, 60, 90, 600, 1439, 1440}}
    \cup UNION {{[date |-> [ADate EXCEPT ![i] = n], utc_offset |-> -90] : n \in Edge(i)} :
                i \in DateFields}

Chars == {ZERO, ZERO + 1, ZERO + 9, PLUS, MINUS, DOT, 120}
Short == UNION {[1 .. n -> Chars] : n \in 0 .. 3}
Beyond == {b + d : b \in Bounds \cup {10 * LLONG_MAX}, d \in -11 .. 11}
Around == {Decimal(n) : n \in Beyond}
Variants(t) == {t, <<PLUS>> \o t, <<ZERO>> \o t, t \o <<ZERO>>, t \o <<120>>, t \o <<DOT>>}
Stamp == DateTimeText([date |-> ADate, utc_offset |-> 90])
Stamps == {[Stamp EXCEPT ![i] = c] : i \in 1 .. AMP_DT_SIZE, c \in Chars}
            \cup {Tail(Stamp), Stamp \o <<ZERO>>}
MCTexts == Short \cup UNION {Variants(t) : t \in Around} \cup Stamps
             \cup {TrueText, FalseText, NanText, InfText, <<MINUS>> \o InfText, <<PLUS>> \o InfText}
=============================================================================
