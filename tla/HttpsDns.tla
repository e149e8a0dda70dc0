------------------------------ MODULE HttpsDns ------------------------------
(***************************************************************************)
(* The translation of an answer of the HTTPS name service, in JSON, into   *)
(* DNS records (dns/httpsdns.go), and the addresses that a lookup keeps of *)
(* it (dns/dns.go).  A record is its type and the words of its data; the   *)
(* numbers and names among the words play no part.                         *)
(***************************************************************************)
EXTENDS Integers, Sequences

\* The types whose data is taken as a whole, or word by word whatever there is.
WholeTypes == {"A", "NS", "MD", "MF", "CNAME", "MB", "MG", "MR", "PTR", "TXT", "AAAA",
               "SPF", "NSEC"}

\* Faulty variant: an MX record is taken apart if it has any word.
Words_ShortMX == [SOA |-> 7, MX |-> 1, RP |-> 2, SRV |-> 4, DS |-> 4, SSHFP |-> 3,
                  RRSIG |-> 9, DNSKEY |-> 4, NSEC3 |-> 7, NSEC3PARAM |-> 5]

\* For the others, the number of words that Translate asks for ...
Words == [SOA |-> 7, MX |-> 2, RP |-> 2, SRV |-> 4, DS |-> 4, SSHFP |-> 3, RRSIG |-> 9,
          DNSKEY |-> 4, NSEC3 |-> 7, NSEC3PARAM |-> 5]

\* ... and the last one that it then uses, counted from 0.
LastWord == [SOA |-> 6, MX |-> 1, RP |-> 1, SRV |-> 3, DS |-> 3, SSHFP |-> 2, RRSIG |-> 8,
             DNSKEY |-> 3, NSEC3 |-> 6, NSEC3PARAM |-> 4]

\* NULL, HINFO, MINFO and every type that is not listed: rr stays nil, and the
\* header is assigned through it.
Known(rr) == rr.type \in WholeTypes \cup DOMAIN Words

\* DNSRR.Translate: a record, nothing, or a panic.
Translate(rr) ==
    IF ~Known(rr) THEN "panic"
    ELSE IF rr.type \in WholeTypes THEN "rr"
    ELSE IF rr.words < Words[rr.type] THEN "nothing"
    ELSE IF rr.words <= LastWord[rr.type] THEN "panic"
    ELSE IF rr.type = "RRSIG" /\ ~rr.covered THEN "nothing"
    ELSE "rr"

\* TranslateRRs over a section of an answer: the places of the records it returns.
TranslateRRs(rrs) == {i \in DOMAIN rrs : Translate(rrs[i]) = "rr"}

\* TranslateAnswer: the class of each question is that of the question that was
\* asked, of which there is one; all three sections are translated.
AnswerPanics(msg) ==
    \/ msg.questions > 1
    \/ \E i \in DOMAIN msg.answer : Translate(msg.answer[i]) = "panic"
    \/ \E i \in DOMAIN msg.others : Translate(msg.others[i]) = "panic"

\* HttpsDns.Exchange: the request or its JSON may fail, else the answer is translated.
Exchange(msg) == {"error", IF AnswerPanics(msg) THEN "panic" ELSE "answer"}

\* WrapExchanger.query: the addresses of the answer, in its order and by their
\* places in it, nil where the data was none.
Addresses(msg) ==
    LET kept == {i \in TranslateRRs(msg.answer) : msg.answer[i].type \in {"A", "AAAA"}}
    IN [i \in kept |-> msg.answer[i].addr]
=============================================================================
