----------------------------- MODULE MCSanitizer ------------------------------
EXTENDS Sanitizer

Match == {s \in Span : s.from < s.to}
MCHits == UNION {[1..n -> Match] : n \in 0..3}
===============================================================================
