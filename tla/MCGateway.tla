------------------------------ MODULE MCGateway ------------------------------
(* Requests and states for checking Gateway: see MCGateway.cfg. *)
EXTENDS Gateway

CONSTANTS b, s, x

(* States of the product and its trade that the services can be in. *)
Base == [registered |-> TRUE, contact |-> {s}, product |-> "ON_SALE", images |-> 1,
         trade |-> "NONE", confirmed |-> {}, bound |-> FALSE, review |-> FALSE,
         comments |-> FALSE, conversation |-> FALSE, wrote |-> {}, favorites |-> {}]
States ==
  {[Base EXCEPT !.registered = FALSE, !.contact = {}, !.product = "NONE", !.images = 0],
   [Base EXCEPT !.images = 3, !.comments = TRUE],
   [Base EXCEPT !.trade = "PENDING", !.conversation = TRUE, !.bound = TRUE, !.wrote = {b}],
   [Base EXCEPT !.trade = "CANCELLED", !.conversation = TRUE, !.favorites = {b}],
   [Base EXCEPT !.trade = "ACCEPTED", !.product = "RESERVED", !.confirmed = {s}, !.wrote = {b, s},
                !.conversation = TRUE],
   [Base EXCEPT !.trade = "COMPLETED", !.product = "SOLD", !.confirmed = {b, s}],
   [Base EXCEPT !.trade = "COMPLETED", !.product = "SOLD", !.confirmed = {b, s}, !.review = TRUE],
   [Base EXCEPT !.product = "OFF_SHELF", !.images = 0]}

(* The flaws some step of an endpoint looks at. *)
Flaws(ep) ==
  LET checks == {Plan[ep][i].do : i \in DOMAIN Plan[ep]} IN
  {"none"}
    \cup (checks \cap {"query", "body", "key", "form", "fields", "files"})
    \cup (IF checks \cap {"form", "body"} # {} THEN {"large"} ELSE {})
    \cup (IF "files" \in checks THEN {"many"} ELSE {})
    \cup (IF ep \in {"loginUser", "changeCurrentUserPassword"} THEN {"password"} ELSE {})
    \cup (IF ep \in Declares404 THEN {"missing", "unfitId", "bytes"} ELSE {})
    \cup (IF ep \in {"listProducts", "createProduct"} THEN {"bytes"} ELSE {})
    \cup (IF ep \in {"registerUser", "updateCurrentUser", "listProducts", "createProduct",
                     "updateProduct", "createProductComment", "rejectTrade", "cancelTrade",
                     "createTradeReview", "listConversationMessages"}
          THEN {"unfitText"} ELSE {})
    \cup (IF ep \in {"listProducts", "listCurrentUserProducts", "listUserProducts",
                     "listProductComments", "listTrades", "listFavorites", "listConversations"}
          THEN {"page"} ELSE {})
    \cup (IF ep \in {"registerUser", "updateCurrentUser", "changeCurrentUserPassword",
                     "createProduct", "updateProduct", "addProductImages",
                     "createProductComment", "addFavorite", "removeFavorite",
                     "getOrCreateProductConversation", "listConversationMessages"}
          THEN {"invalid"} ELSE {})

(* The stranger neither buys nor asks: there is one trade and conversation. *)
Actors(ep) ==
  IF ep \in Public THEN {x}
  ELSE IF ep \in {"createTrade", "getOrCreateProductConversation"} THEN {b, s} ELSE {b, s, x}
Conversations(ep) == IF ep = "createTrade" THEN Conversation ELSE {"none"}

Requests ==
  {r \in AnyRequest :
     r.actor \in Actors(r.ep) /\ r.flaw \in Flaws(r.ep) /\ r.conv \in Conversations(r.ep)}

(* Calls from service to service meet each other, and changes of what they *)
(* look at.                                                                *)
Meeting ==
  {r \in Requests :
     /\ r.flaw = "none" /\ r.conv \in {"none", "own"}
     /\ \/ r.actor = b /\ r.ep \in {"createTrade", "getOrCreateProductConversation", "addFavorite",
                                   "listFavorites"}
        \/ r.actor = s /\ r.ep = "cancelTrade"}
Meet(q, r) == q \in Meeting /\ r \in Meeting
=============================================================================
