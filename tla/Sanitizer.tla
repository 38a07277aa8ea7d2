------------------------------- MODULE Sanitizer -------------------------------
(***************************************************************************)
(* The sanitizer of outputs, core/detection/output_sanitizer.py, and the   *)
(* endpoint /sanitize of server/main.py: the matches of the patterns are   *)
(* reduced to spans that do not overlap, and the spans are replaced by     *)
(* labels from right to left.                                              *)
(*                                                                         *)
(* A text is a sequence of cells.  A match covers the cells from+1..to and *)
(* has the severity of its category: 2 medium (instruction tags and        *)
(* imperatives), 3 high (PII and exfiltration URLs), 4 critical            *)
(* (credentials).                                                          *)
(***************************************************************************)
EXTENDS Integers, Sequences

CONSTANTS
  Length, \* cells of the text, after normalization
  Hits    \* what _collect_raw_matches can return: sequences of matches

Severities == 2..4
Span == [from : 0..Length, to : 0..Length, sev : Severities]

ASSUME LengthAssumption == Length \in Nat
ASSUME HitsAssumption ==
  \A hs \in Hits : hs \in Seq(Span) /\ \A k \in DOMAIN hs : hs[k].from < hs[k].to

VARIABLES
  stage,  \* "resolve", "redact", "answered"
  hits,   \* raw matches, in the order they were found
  rest,   \* indices of matches not looked at yet
  spans,  \* result of _resolve_overlaps
  left,   \* spans not replaced yet
  text,   \* the text: cell k is k, the label of the k-th span is -k
  alert   \* fire_alert was called

vars == <<stage, hits, rest, spans, left, text, alert>>

Init ==
  /\ stage = "resolve"
  /\ hits \in Hits
  /\ rest = DOMAIN hits
  /\ spans = <<>>
  /\ left = 0
  /\ text = [k \in 1..Length |-> k]
  /\ alert = "no"

-------------------------------------------------------------------------------
\* The next match in the order of sorted(), which is stable.
First(k) ==
  /\ k \in rest
  /\ \A j \in rest : hits[k].from < hits[j].from \/ (hits[k].from = hits[j].from /\ k <= j)

Larger(a, b) == IF a < b THEN b ELSE a
Last(s) == s[Len(s)]

Overlaps(h) == spans # <<>> /\ h.from < Last(spans).to

\* Mutant: the more severe match takes the place of the other one.
ReplacedByNew(old, new) == new

\* The span that stays when two overlap and the later one is more severe.
Replaced(old, new) == [from |-> old.from, to |-> Larger(old.to, new.to), sev |-> new.sev]

\* One turn of the loop of _resolve_overlaps.
Resolve ==
  /\ stage = "resolve"
  /\ \E k \in rest :
       /\ First(k)
       /\ rest' = rest \ {k}
       /\ spans' = IF ~ Overlaps(hits[k]) THEN Append(spans, hits[k])
                   ELSE IF hits[k].sev > Last(spans).sev
                   THEN [spans EXCEPT ![Len(spans)] = Replaced(@, hits[k])]
                   ELSE spans
  /\ UNCHANGED <<stage, hits, left, text, alert>>

\* The loop is over: _resolve_overlaps returns, and sanitize turns to the last span.
Resolved ==
  /\ stage = "resolve" /\ rest = {}
  /\ stage' = "redact"
  /\ left' = Len(spans)
  /\ UNCHANGED <<hits, rest, spans, text, alert>>

\* A slice [:n], which ends with the text.
Upto(s, n) == SubSeq(s, 1, IF n < Len(s) THEN n ELSE Len(s))

\* sanitized[:start] + label + sanitized[end:]
Cut(s, start, end, label) == Upto(s, start) \o <<label>> \o SubSeq(s, end + 1, Len(s))

\* Mutant: the spans are replaced from left to right.
RedactForward ==
  /\ stage = "redact" /\ left > 0
  /\ LET k == Len(spans) - left + 1
     IN  text' = Cut(text, spans[k].from, spans[k].to, -k)
  /\ left' = left - 1
  /\ UNCHANGED <<stage, hits, rest, spans, alert>>

\* The spans are replaced from the last to the first.
Redact ==
  /\ stage = "redact" /\ left > 0
  /\ text' = Cut(text, spans[left].from, spans[left].to, -left)
  /\ left' = left - 1
  /\ UNCHANGED <<stage, hits, rest, spans, alert>>

\* The endpoint answers; a high or critical threat raises an alert.
Answer ==
  /\ stage = "redact" /\ left = 0
  /\ stage' = "answered"
  /\ alert' = IF \E k \in DOMAIN spans : spans[k].sev >= 3 THEN "yes" ELSE "no"
  /\ UNCHANGED <<hits, rest, spans, left, text>>

Next == Resolve \/ Resolved \/ Redact \/ Answer

Spec == Init /\ [][Next]_vars

-------------------------------------------------------------------------------
\* However the matches overlap, the threats that are reported are apart from
\* each other and in the order of the text, and every match that was found
\* begins in one that is at least as severe; an alert is raised exactly when one
\* of the matches is high or critical.
Apart ==
  \A j, k \in DOMAIN spans : j < k => spans[j].to <= spans[k].from
BeginsInSpan(h) ==
  \E k \in DOMAIN spans :
    spans[k].from <= h.from /\ h.from < spans[k].to /\ h.sev <= spans[k].sev
NoneUnderstated ==
  /\ Apart
  /\ \A i \in DOMAIN hits \ rest : BeginsInSpan(hits[i])
  /\ stage = "answered" => (alert = "yes" <=> \E i \in DOMAIN hits : hits[i].sev >= 3)

\* The redacted text is the original with each span replaced by its label: no
\* cell of a span is left, and the cells outside and the labels are in the order
\* of the text.  Cutting one span never shifts another that is yet to be cut.
Within(p, k) == spans[k].from < p /\ p <= spans[k].to
Place(c) == IF c > 0 THEN c ELSE spans[-c].to
RedactedInPlace ==
  stage = "answered" =>
    /\ \A p \in 1..Length :
         (\E n \in DOMAIN text : text[n] = p) <=> ~ \E k \in DOMAIN spans : Within(p, k)
    /\ \A k \in DOMAIN spans : \E n \in DOMAIN text : text[n] = -k
    /\ \A m, n \in DOMAIN text : m < n => Place(text[m]) < Place(text[n])

-------------------------------------------------------------------------------
(* The inductive invariant behind them.                                    *)

SpansOK ==
  /\ hits \in Hits /\ rest \subseteq DOMAIN hits /\ spans \in Seq(Span)
  /\ \A k \in DOMAIN spans : spans[k].from < spans[k].to
  /\ \A k \in DOMAIN spans : \E i \in DOMAIN hits \ rest : spans[k].sev = hits[i].sev
  /\ \A k \in DOMAIN spans, j \in rest : spans[k].from <= hits[j].from

StageOK ==
  /\ stage \in {"resolve", "redact", "answered"}
  /\ left \in 0 .. Len(spans)
  /\ stage # "resolve" => rest = {}
  /\ stage = "answered" => left = 0

\* Where the part begins that was cut: what is before it is as it was, so the
\* positions of the spans that are left are still right.
Uncut == IF left < Len(spans) THEN spans[left + 1].from ELSE Length

TextOK ==
  /\ text \in Seq(Int)
  /\ \A n \in DOMAIN text : text[n] > 0 \/ -text[n] \in DOMAIN spans
  /\ IF stage = "resolve" THEN text = [k \in 1..Length |-> k]
     ELSE /\ Uncut <= Len(text)
          /\ \A n \in 1 .. Uncut : text[n] = n
          /\ \A p \in 1..Length :
               (\E n \in DOMAIN text : text[n] = p)
                 <=> ~ \E k \in left + 1 .. Len(spans) : Within(p, k)
          /\ \A k \in left + 1 .. Len(spans) : \E n \in DOMAIN text : text[n] = -k
          /\ \A m, n \in DOMAIN text : m < n => Place(text[m]) < Place(text[n])

SanInv == SpansOK /\ StageOK /\ NoneUnderstated /\ TextOK

-------------------------------------------------------------------------------
\* All findings are redacted.
FindingsRedacted ==
  stage = "answered" =>
    \A i \in DOMAIN hits : \A n \in DOMAIN text :
      ~ (hits[i].from < text[n] /\ text[n] <= hits[i].to)
===============================================================================
