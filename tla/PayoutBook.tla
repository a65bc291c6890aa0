----------------------------- MODULE PayoutBook -----------------------------
(***************************************************************************)
(* What Settlements promises about payouts, without runs, reads and slots: *)
(* what a payee is owed for a cycle is entered in one step, from work the  *)
(* payee has done in the cycle's window, and paid in one step, as entered. *)
(* Once something of a cycle is paid, its entries do not change.           *)
(*                                                                         *)
(* settlement_service.go takes many statements for either.  Where requests *)
(* about a cycle meet, the promises that then are not kept are given up.   *)
(***************************************************************************)
EXTENDS Naturals, Sequences

CONSTANTS Payees, Work, Cycles, Days, None

VARIABLES
    done,                \* done[w]: who did w, and on which day last, or None
    days,                \* days[w]: the days w was done on
    window,              \* window[c]: the first day of cycle c and the day
                         \* after its last, or None
    row,                 \* row[c][p]: the entry, or None
    sent,                \* sent[c][p]: what has been paid, payout by payout
    met                  \* met[c]: which requests about cycle c have met

bookVars == <<done, days, window, row, sent, met>>

Meeting == {"two runs", "run and payout", "two payouts"}

IsPaid(c, p) == row[c][p] # None /\ row[c][p].status = "paid"

DoneInWindow(c, p, w) ==
    /\ window[c] # None
    /\ done[w] # None /\ done[w][1] = p
    /\ \E day \in days[w] : window[c][1] <= day /\ day < window[c][2]

Init ==
    /\ done = [w \in Work |-> None]
    /\ days = [w \in Work |-> {}]
    /\ window = [c \in Cycles |-> None]
    /\ row = [c \in Cycles |-> [p \in Payees |-> None]]
    /\ sent = [c \in Cycles |-> [p \in Payees |-> <<>>]]
    /\ met = [c \in Cycles |-> {}]

\* Work is done by one payee, perhaps more than once; a window is set once.
Do(w, p, day) ==
    /\ done[w] # None => done[w][1] = p
    /\ done' = [done EXCEPT ![w] = <<p, day>>]
    /\ days' = [days EXCEPT ![w] = @ \cup {day}]
    /\ UNCHANGED <<window, row, sent, met>>

Open(c, start, end) ==
    /\ window[c] = None
    /\ start < end
    /\ window' = [window EXCEPT ![c] = <<start, end>>]
    /\ UNCHANGED <<done, days, row, sent, met>>

\* An entry is made, or made anew, as long as nothing of the cycle is paid.
Enter(c, p, work) ==
    /\ \A w \in work : DoneInWindow(c, p, w)
    /\ "run and payout" \in met[c] \/ \A q \in Payees : ~ IsPaid(c, q)
    /\ row' = [row EXCEPT ![c][p] =
                 [work |-> work, status |-> IF @ = None THEN "pending" ELSE @.status]]
    /\ UNCHANGED <<done, days, window, sent, met>>

\* An entry is paid once, and exactly as it is.
Pay(c, p, work) ==
    /\ row[c][p] # None
    /\ "two payouts" \in met[c] \/ sent[c][p] = <<>>
    /\ "run and payout" \in met[c] \/ work = row[c][p].work
    /\ \A w \in work : DoneInWindow(c, p, w)
    /\ row' = [row EXCEPT ![c][p] = [work |-> @.work, status |-> "paid"]]
    /\ sent' = [sent EXCEPT ![c][p] = Append(@, work)]
    /\ UNCHANGED <<done, days, window, met>>

Meet(c, meetings) ==
    /\ met' = [met EXCEPT ![c] = @ \cup meetings]
    /\ UNCHANGED <<done, days, window, row, sent>>

Next ==
    \/ \E c \in Cycles, meetings \in SUBSET Meeting : Meet(c, meetings)
    \/ \E w \in Work, p \in Payees, day \in Days : Do(w, p, day)
    \/ \E c \in Cycles, start, end \in Days : Open(c, start, end)
    \/ \E c \in Cycles, p \in Payees, work \in SUBSET Work :
          Enter(c, p, work) \/ Pay(c, p, work)

Spec == Init /\ [][Next]_bookVars
=============================================================================
