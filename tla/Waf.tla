-------------------------------- MODULE Waf --------------------------------
(***************************************************************************)
(* WAF::inspect() of src/waf.cpp: the parts of a request are looked at one *)
(* after the other, their scores are added up, and the first part that     *)
(* brings the sum to the threshold ends the inspection.  A payload is a    *)
(* sequence of units; some are the sign of a rule, perhaps percent-encoded *)
(* a number of times.  The regular expressions, the detection of malformed *)
(* UTF-8 and the steps of normalize() after the first are data.            *)
(***************************************************************************)
EXTENDS Integers, SequencesExt

CONSTANTS
    Signs,               \* for each unit that is one: its rule, its encodings
    Rules,               \* the rules in the order they are tried, with what a match adds
    Threshold,           \* BLOCK_THRESHOLD
    MaxIterations,       \* of recursive_url_decode()
    BodyLimit            \* body_inspection_limit

ASSUME WafAssumption ==
    /\ Signs \in [DOMAIN Signs -> [rule : STRING, layers : Nat]]
    /\ Rules \in Seq([rule : STRING, score : Nat])
    /\ {Threshold, MaxIterations, BodyLimit} \subseteq Nat

(* For a header: what is wrong with its value and what that adds.           *)
HeaderScore == [oversized |-> 3, crlf |-> 5, null |-> 5, multibyte |-> 5]

-----------------------------------------------------------------------------
(* recursive_url_decode().  One round takes one encoding off every unit     *)
(* that has one left; the first round that changes nothing is the last.     *)
Encodings(payload) ==
    [i \in DOMAIN payload |-> IF payload[i] \in DOMAIN Signs THEN Signs[payload[i]].layers ELSE 0]

Decoded(payload) ==
    LET after[n \in 0..MaxIterations] ==
            IF n = 0 THEN Encodings(payload)
            ELSE [i \in DOMAIN payload |-> IF after[n - 1][i] > 0 THEN after[n - 1][i] - 1 ELSE 0]
    IN  after[MaxIterations]

(* scan_payload(): one rule after the other, every rule counts once.        *)
RulesIn(payload) ==
    {Signs[payload[i]].rule : i \in {j \in DOMAIN payload : payload[j] \in DOMAIN Signs /\ Decoded(payload)[j] = 0}}
ScoreOf(found) ==
    LET score[k \in 0..Len(Rules)] ==
            IF k = 0 THEN 0 ELSE score[k - 1] + (IF Rules[k].rule \in found THEN Rules[k].score ELSE 0)
    IN  score[Len(Rules)]
ScanPayload(payload) == ScoreOf(RulesIn(payload))

(* check_headers(): the loop ends once the headers alone suffice.           *)
FaultScore(faults) ==
    LET score(f) == IF f \in faults THEN HeaderScore[f] ELSE 0
    IN  score("oversized") + score("crlf") + score("null") + score("multibyte")
CheckHeaders(headers) ==
    LET score[k \in 0..Len(headers)] ==
            IF k = 0 THEN 0
            ELSE IF score[k - 1] >= Threshold THEN score[k - 1]
            ELSE score[k - 1] + FaultScore(headers[k])
    IN  score[Len(headers)]

-----------------------------------------------------------------------------
Clear == [blocked |-> FALSE, score |-> 0]
Block(v) == [blocked |-> TRUE, score |-> Threshold]

(* Fault: the score of a part replaces what was found before. *)
AddReplaces(v, score) ==
    IF v.blocked THEN v ELSE [blocked |-> score >= Threshold, score |-> score]

(* A part's score is added, unless an earlier part has ended the inspection. *)
Add(v, score) ==
    IF v.blocked THEN v ELSE [blocked |-> v.score + score >= Threshold, score |-> v.score + score]

ScannedBody(body) == SubSeq(body, 1, Min({BodyLimit, Len(body)}))

InspectBody(v, body) ==
    IF v.blocked THEN v
    ELSE IF Contains(ScannedBody(body), "multibyte") THEN Block(v)
    ELSE Add(v, ScanPayload(ScannedBody(body)))

(* r has the signs of a request outside its body: in the URI as a whole,    *)
(* the user agent, the headers, the path and the query.                     *)
Inspect(r, body) ==
    LET v1 == IF r.malformed_uri THEN Block(Clear) ELSE Clear
        v2 == Add(v1, IF r.blocked_ua THEN Threshold ELSE 0)
        v3 == Add(v2, CheckHeaders(r.headers))
        v4 == Add(v3, ScanPayload(r.path))
        v5 == Add(v4, ScanPayload(r.query))
    IN  InspectBody(v5, body)

-----------------------------------------------------------------------------
(* Reference: all that can be found, and what it adds up to.                *)
Found(payload) ==
    {Signs[u].rule : u \in {x \in ToSet(payload) : x \in DOMAIN Signs /\ Signs[x].layers <= MaxIterations}}
Weight(payload) == ScoreOf(Found(payload))
HeaderWeight(headers) ==
    LET sum[k \in 0..Len(headers)] == IF k = 0 THEN 0 ELSE sum[k - 1] + FaultScore(headers[k])
    IN  sum[Len(headers)]
Suspicious(r, body) ==
    \/ r.malformed_uri \/ r.blocked_ua
    \/ "multibyte" \in ToSet(ScannedBody(body))
    \/ HeaderWeight(r.headers) + Weight(r.path) + Weight(r.query) + Weight(ScannedBody(body)) >= Threshold
=============================================================================
