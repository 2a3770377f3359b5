----------------------------- MODULE MessageText -----------------------------
(***************************************************************************)
(* The texts of the values and the messages of the exchange, with which    *)
(* the matching engine logs every response and every market update it      *)
(* sends (types.h, client_response.h, market_update.h).  A text is the     *)
(* record of the texts it holds; the ticker and all punctuation are left   *)
(* out.                                                                    *)
(***************************************************************************)
EXTENDS Integers, TLC

CONSTANTS
  nullptr,     \* also the greatest number of each type, its INVALID value
  QtyModulus   \* 2^32, the number of values of a Qty

\* orderIdToString(), clientIdToString(), priceToString().
Shown(v) == IF v = nullptr THEN "INVALID" ELSE ToString(v)

\* qtyToString(), which is given priorities too: of their 64 bits it sees 32.
QtyShown(q) ==
  IF q = nullptr \/ q % QtyModulus = QtyModulus - 1 THEN "INVALID" ELSE ToString(q % QtyModulus)

\* sideToString().
SideShown(s) == CASE s \in {"BUY", "SELL"} -> s [] s = nullptr -> "INVALID" [] OTHER -> "UNKNOWN"

\* clientResponseTypeToString() and marketUpdateTypeToString() name the types there are.
ResponseTypeShown(t) ==
  IF t \in {"INVALID", "ACCEPTED", "CANCELED", "FILLED", "CANCEL_REJECTED"} THEN t ELSE "UNKNOWN"
UpdateTypeShown(t) ==
  IF t \in {"INVALID", "CLEAR", "ADD", "MODIFY", "CANCEL", "TRADE", "SNAPSHOT_START", "SNAPSHOT_END"}
    THEN t ELSE "UNKNOWN"

\* MEClientResponse::toString().
ResponseText(r) ==
  [type |-> ResponseTypeShown(r.type), client |-> Shown(r.client), coid |-> Shown(r.id),
   moid |-> Shown(r.moid), side |-> SideShown(r.side), price |-> Shown(r.price),
   exec_qty |-> QtyShown(r.exec), leaves_qty |-> QtyShown(r.leaves)]

\* MEMarketUpdate::toString().
UpdateText(u) ==
  [type |-> UpdateTypeShown(u.type), oid |-> Shown(u.moid), side |-> SideShown(u.side),
   price |-> Shown(u.price), qty |-> QtyShown(u.qty), priority |-> QtyShown(u.prio)]
=============================================================================
