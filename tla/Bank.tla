-------------------------------- MODULE Bank --------------------------------
(***************************************************************************)
(* The ledger one server of a bank keeps, and how an update changes it:    *)
(* the accounts (common/bank.h, common/account.h), the history of updates  *)
(* that a retry is checked against (processed_map_, sent_list_), and the   *)
(* operators that server.cc runs under its mutex for every update.         *)
(*                                                                         *)
(* Account names, request ids and bank names are elements of small sets;   *)
(* amounts and balances are whole numbers (the code's are floats).         *)
(***************************************************************************)
EXTENDS Integers, Sequences, FiniteSets

CONSTANTS
    Banks,       \* bank ids
    Accounts,    \* account ids; every bank may hold an account of each name
    ReqIds,      \* request ids
    NoBank,      \* a dest_bank_id that is not set
    NoAccount,   \* a dest_account_id that is not set
    NumServers,  \* the servers of all banks are 1 .. NumServers
    Client       \* the address of "some client"

ASSUME BankAssumption ==
    /\ NumServers \in Nat \ {0}
    /\ Client \notin 1 .. NumServers
    /\ NoBank \notin Banks
    /\ NoAccount \notin Accounts

Servers == 1 .. NumServers

-----------------------------------------------------------------------------
(* Requests, replies and the history entries that pair them.               *)

UpdateTypes == {"DEPOSIT", "WITHDRAW", "TRANSFER", "TRANSFER_TO"}

\* A request on the wire.  "from" is client_addr: the client, or the tail of
\* the upstream bank that forwards a transfer.  "seq" is bank_update_seq, 0
\* until a head has numbered the request.  A transfer names its destination.
RequestRecord ==
    [id : ReqIds, type : UpdateTypes \cup {"QUERY"}, bank : Banks,
     acct : Accounts, amount : Nat, dbank : Banks \cup {NoBank},
     dacct : Accounts \cup {NoAccount}, from : Servers \cup {Client},
     seq : Nat]

Request ==
    {r \in RequestRecord :
        r.type = "TRANSFER" => r.dbank \in Banks /\ r.dacct \in Accounts}

Outcomes == {"PROCESSED", "INCONSISTENT_WITH_HISTORY", "INSUFFICIENT_FUNDS"}

Reply == [id : ReqIds, acct : Accounts, outcome : Outcomes, balance : Int]

\* A request together with the reply the server computed for it.
Entry == [req : Request, reply : Reply]

\* What a server keeps of its bank: the accounts created so far, the balance
\* of each (0 until it is created), the answered updates and the updates sent
\* on but not yet acknowledged.
Ledger ==
    [accts : SUBSET Accounts, bal : [Accounts -> Int],
     processed : SUBSET Entry, sent : Seq(Entry)]

EmptyLedger ==
    [accts |-> {}, bal |-> [a \in Accounts |-> 0],
     processed |-> {}, sent |-> <<>>]

-----------------------------------------------------------------------------
(* The subsequence of s at the index set K, in order: what is left of a    *)
(* deque after a loop erases the other elements, or what a loop with an    *)
(* "if" visits.                                                            *)
Rank(K, i) == Cardinality({j \in K : j < i})

Pick(s, K) ==
    [k \in 1 .. Cardinality(K) |-> s[CHOOSE i \in K : Rank(K, i) = k - 1]]

-----------------------------------------------------------------------------
(* The history check of check_update_request.                              *)

\* The key of processed_map_ is req_id + "_" + account_id.
SameKey(r1, r2) == r1.id = r2.id /\ r1.acct = r2.acct

\* Everything but the account is compared.
req_consistent(r1, r2) ==
    /\ r1.type = r2.type
    /\ r1.bank = r2.bank
    /\ r1.amount = r2.amount
    /\ r1.dbank = r2.dbank
    /\ r1.dacct = r2.dacct

\* Is i the first entry of the sent list with the id of req?  The loop over
\* sent_list_ compares the request id alone.
FirstSent(sent, req, i) ==
    /\ sent[i].req.id = req.id
    /\ \A j \in 1 .. (i - 1) : sent[j].req.id # req.id

\* The update history that decides the answer to req: the entry of
\* processed_map_ with its key, else the first one of sent_list_ with its id.
\* An account that does not exist yet has no history at all.
History(l, req) ==
    LET done == {e \in l.processed : SameKey(e.req, req)}
        sent == {l.sent[i] : i \in {i \in DOMAIN l.sent :
                                        FirstSent(l.sent, req, i)}}
    IN  CASE req.acct \notin l.accts -> {}
          [] req.acct \in l.accts /\ done # {} -> done
          [] OTHER -> sent

\* Defect: sent_list_ is not searched, so a retry that arrives while the first
\* attempt is in flight counts as new.
check_update_request_no_sent(l, req) ==
    LET old == {e \in l.processed : SameKey(e.req, req)}
    IN  CASE old = {} -> "NEWREQ"
          [] \E e \in old : req_consistent(req, e.req) -> "PROCESSED"
          [] OTHER -> "INCONSISTENT"

\* Defect: a forwarded transfer is not checked against the history.
check_update_request_transfer_new(l, req) ==
    LET old == IF req.type = "TRANSFER_TO" THEN {} ELSE History(l, req)
    IN  CASE old = {} -> "NEWREQ"
          [] \E e \in old : req_consistent(req, e.req) -> "PROCESSED"
          [] OTHER -> "INCONSISTENT"

check_update_request(l, req) ==
    LET old == History(l, req)
    IN  CASE old = {} -> "NEWREQ"
          [] \E e \in old : req_consistent(req, e.req) -> "PROCESSED"
          [] OTHER -> "INCONSISTENT"

-----------------------------------------------------------------------------
(* The effect of an update.                                                *)

\* A debit must be covered by the balance, a credit always succeeds.
Debits(req) == req.type \in {"WITHDRAW", "TRANSFER"}

\* Defect: no test for sufficient funds.
Covered_always(l, req) == TRUE

Covered(l, req) == Debits(req) => l.bal[req.acct] >= req.amount

update_balance(l, req) ==
    IF Covered(l, req)
    THEN [l.bal EXCEPT ![req.acct] =
            IF Debits(req) THEN @ - req.amount ELSE @ + req.amount]
    ELSE l.bal

\* Defect: a retry is answered with the current balance.
update_request_reply_current(l, req) ==
    LET check   == check_update_request(l, req)
        bal     == IF check = "NEWREQ" THEN update_balance(l, req) ELSE l.bal
        outcome == CASE check = "INCONSISTENT" -> "INCONSISTENT_WITH_HISTORY"
                     [] check = "NEWREQ" /\ ~Covered(l, req)
                                            -> "INSUFFICIENT_FUNDS"
                     [] OTHER -> "PROCESSED"
    IN  [ledger |-> [l EXCEPT !.bal = bal, !.accts = @ \cup {req.acct}],
         entry  |-> [req |-> req,
                     reply |-> [id |-> req.id, acct |-> req.acct,
                                outcome |-> outcome, balance |-> bal[req.acct]]],
         check  |-> check]

\* The ledger after an update and the entry (request with reply) that the
\* handlers of the different roles file away.  A processed request is given
\* its old reply again; get_or_create_account creates the account.
update_request_reply(l, req) ==
    LET check   == check_update_request(l, req)
        bal     == IF check = "NEWREQ" THEN update_balance(l, req) ELSE l.bal
        outcome == CASE check = "INCONSISTENT" -> "INCONSISTENT_WITH_HISTORY"
                     [] check = "NEWREQ" /\ ~Covered(l, req)
                                            -> "INSUFFICIENT_FUNDS"
                     [] OTHER -> "PROCESSED"
        fresh   == [id |-> req.id, acct |-> req.acct, outcome |-> outcome,
                    balance |-> bal[req.acct]]
        reply   == IF check = "PROCESSED"
                   THEN (CHOOSE e \in History(l, req) :
                            req_consistent(req, e.req)).reply
                   ELSE fresh
    IN  [ledger |-> [l EXCEPT !.bal = bal, !.accts = @ \cup {req.acct}],
         entry  |-> [req |-> req, reply |-> reply],
         check  |-> check]

\* Insert the entries of the sequence es into processed_map_, one after the
\* other: an entry whose key is present is left out.
insert_processed_list(l, es) ==
    LET new(i) == /\ \A e \in l.processed : ~SameKey(e.req, es[i].req)
                  /\ \A j \in 1 .. (i - 1) : ~SameKey(es[j].req, es[i].req)
    IN  [l EXCEPT !.processed = @ \cup {es[i] : i \in {i \in DOMAIN es : new(i)}}]

insert_sent_list(l, e) == [l EXCEPT !.sent = Append(@, e)]

\* get_balance creates an account it does not find.
get_balance(l, acct) == [l EXCEPT !.accts = @ \cup {acct}]
=============================================================================
