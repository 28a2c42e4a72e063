--------------------------- MODULE MCRecordParser ---------------------------
(***************************************************************************)
(* An instance of RecordParser with the sizes of the structs, names of no, *)
(* one, two and three characters, and buffers of up to two records.        *)
(***************************************************************************)
EXTENDS RecordParser

Notified(next, name) == [next |-> next, payload |-> name, version |-> 0, offset |-> 0]
Recorded(next, v, start, n) == [next |-> next, payload |-> n, version |-> v, offset |-> start]

MCRecordSize == [v \in {2, 3, 4} |-> IF v = 2 THEN 64 ELSE 80]

\* Quadwords.
Padded(n) == 8 * ((n + 7) \div 8)

Names == {0, 2, 4, 6}

NotificationLayouts ==
    {[format |-> "notifications", len |-> 0, at |-> <<>>]}
    \cup {[format |-> "notifications", len |-> 84 + n,
           at |-> [o \in {0} |-> Notified(0, n)]] : n \in Names}
    \cup {LET second == Padded(84 + n) IN
             [format |-> "notifications", len |-> second + 84 + m,
              at |-> [o \in {0, second} |-> IF o = 0 THEN Notified(second, n) ELSE Notified(0, m)]] :
          n, m \in Names}

JournalHeaders ==
    {Recorded(Padded(60 + n), 2, 60, n) : n \in Names \ {0}}
    \cup {Recorded(Padded(76 + n), 3, 76, n) : n \in Names \ {0}}
    \cup {Recorded(64 + n, 4, 0, 16) : n \in {16, 32}}

JournalLayouts ==
    {[format |-> "journal", len |-> 8, at |-> <<>>]}
    \cup {[format |-> "journal", len |-> 8 + h.next, at |-> [o \in {8} |-> h]] : h \in JournalHeaders}
    \cup {[format |-> "journal", len |-> 8 + h.next + g.next,
           at |-> [o \in {8, 8 + h.next} |-> IF o = 8 THEN h ELSE g]] : h, g \in JournalHeaders}

MCLayouts == NotificationLayouts \cup JournalLayouts
MCLengths == {0, 7, 8, 12, 72, 87, 88, 90, 152}
MCHeaders ==
    {Notified(next, n) : next \in {0, 1, 88}, n \in {0, 3, 30, 940}}
    \cup {Recorded(next, v, start, n) :
             next \in {0, 64, 88}, v \in {2, 4, 5}, start \in {0, 60}, n \in {0, 2, 3}}
=============================================================================
