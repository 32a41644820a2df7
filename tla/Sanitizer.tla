------------------------------ MODULE Sanitizer ------------------------------
(***************************************************************************)
(* The sanitizer of imported text. A text is a sequence of segments          *)
(* [kind, val]; the kind says which rules match the segment. A replaced       *)
(* segment has kind "placeholder" and the value <<category, number>>. The     *)
(* state of a sanitizer is its mapping, a set of entries [cat, val, n].       *)
(* Custom terms and JSON documents are left out: nothing in the core calls    *)
(* for them.                                                                 *)
(***************************************************************************)
EXTENDS Naturals, Sequences, FiniteSets, SequencesExt

\* The order of the passes: paths, the wide nets, then everything else. The two path
\* rules share a category and count as one; neither needs backtracking, so neither has
\* a limit to exceed.
Rules == <<"USERNAME", "PEM_PRIVATE_KEY", "URL", "EMAIL", "JWT", "API_KEY", "CREDIT_CARD",
           "SSN", "IP_ADDRESS", "IPV6_ADDRESS", "MAC_ADDRESS", "ETH_ADDRESS", "BTC_ADDRESS", "PHONE">>

\* A run of digits is a card number if the Luhn check holds for it ("card") and
\* may be a telephone number if it does not ("digits").
Matches(rule, seg) ==
    \/ seg.kind = rule
    \/ rule = "CREDIT_CARD" /\ seg.kind = "card"
    \/ rule = "PHONE" /\ seg.kind = "digits"

NewSanitizer == {}

Entries(mapping, cat, val) == {e \in mapping : e.cat = cat /\ e.val = val}

MappedByValue(mapping, cat, val) ==
    mapping \cup {[cat |-> cat, val |-> val, n |-> 1 + Cardinality(Entries(mapping, cat, val))]}

\* Numbers count per category, and an entry is made with each count.
Mapped(mapping, cat, val) ==
    IF Entries(mapping, cat, val) # {} THEN mapping
    ELSE mapping \cup {[cat |-> cat, val |-> val,
                        n |-> 1 + Cardinality({e \in mapping : e.cat = cat})]}
Placeholder(mapping, cat, val) ==
    [kind |-> "placeholder", val |-> <<cat, (CHOOSE e \in Entries(mapping, cat, val) : TRUE).n>>]

\* A segment on which a rule exceeds the limit of the regular expression engine is
\* "hard" and names the rule: that rule leaves the rest of the text as it is, the
\* others go on.
Stops(rule, seg)       == seg.kind = "hard" /\ seg.val = <<rule>>
Reached(rule, text, j) == \A i \in 1..j : ~Stops(rule, text[i])
Hit(rule, text, j)     == Reached(rule, text, j) /\ Matches(rule, text[j])

\* One rule over a text from left to right.
Replaced(st, rule, seg) ==
    LET m == Mapped(st.mapping, rule, seg.val)
    IN  [mapping |-> m, text |-> Append(st.text, Placeholder(m, rule, seg.val))]
Left(st, seg) == [mapping |-> st.mapping, text |-> Append(st.text, seg)]
Pass(st, rule) ==
    LET upTo[k \in 0..Len(st.text)] ==
            IF k = 0 THEN [mapping |-> st.mapping, text |-> <<>>]
            ELSE IF Hit(rule, st.text, k) THEN Replaced(upTo[k - 1], rule, st.text[k])
            ELSE Left(upTo[k - 1], st.text[k])
    IN  upTo[Len(st.text)]

\* All rules over a text: the new text and the mapping after it.
Sanitized(mapping, text) ==
    LET upTo[k \in 0..Len(Rules)] ==
            IF k = 0 THEN [mapping |-> mapping, text |-> text] ELSE Pass(upTo[k - 1], Rules[k])
    IN  upTo[Len(Rules)]
=============================================================================
