-------------------------------- MODULE Gateway --------------------------------
(***************************************************************************)
(* The endpoints of the Gateway as sequences of calls to the four services *)
(* behind it.  Every call has a deadline, needs a connection of its        *)
(* service's pool, and may in turn call another service while it holds     *)
(* that connection.  A call whose deadline passes is answered at once, but *)
(* what it left behind in a service may still be committed.                *)
(***************************************************************************)
EXTENDS Services, FiniteSets

CONSTANTS
  Start,               \* states of the services to start from
  Request,             \* requests that clients may send
  MaxRequests,         \* bound on the requests of a run
  Together(_, _),      \* which two requests may meet in a run
  MaxConns             \* connections of each service's pool

(* Requests are about the one product, and about its one trade and         *)
(* conversation, so only these two open them.  The caller of an endpoint   *)
(* has an account, and publishing names nothing else.                      *)
ASSUME RequestAssumption ==
  \A r \in Request :
    /\ r \in AnyRequest
    /\ r.ep \in {"createTrade", "getOrCreateProductConversation"} => r.actor \in Party
    /\ r.ep = "createProduct" => r.flaw \notin {"missing", "unfitId"}

(* Favorites and conversations are about a product that was published.     *)
ASSUME StartAssumption ==
  \A d \in Start :
    d \in Database /\ (d.favorites # {} \/ d.conversation => d.product # "NONE")

VARIABLES
  slot,      \* what each request is doing
  orphans    \* calls nobody waits for, still holding connections

vars == <<db, slot, orphans>>

Slot == 1..MaxRequests
Idle == [pc |-> "idle"]

-----------------------------------------------------------------------------
(* Handlers.  A step is a check of the handler or a call; a step with a    *)
(* condition is left out when nothing was learned that asks for it.        *)

Do(step) == [do |-> step, when |-> "always"]
If(fact, step) == [do |-> step, when |-> fact]
All(steps) == [i \in DOMAIN steps |-> Do(steps[i])]

(* What the aggregator looks up to complete an answer. *)
Users == <<If("items", "BatchGetUsers")>>
Scores == <<Do("BatchGetUserAverageScores")>>
Stats == <<Do("GetUserStats")>>
Favorited == <<Do("IsFavorited")>>
Products == <<If("items", "BatchGetProducts")>>
Contacts(fact) == <<[do |-> "BatchGetUserContacts", when |-> fact]>>
Reviews(fact) ==
  <<[do |-> "BatchGetProductTradeReviews", when |-> fact], If("review", "BatchGetUsers")>>

(* Ends of several handlers. *)
WithDetail == <<Do("GetUser")>> \o Favorited \o Scores \o Reviews("sold")
WithPage == Users
WithMyPage == Users \o Reviews("always")
WithTrade == Contacts("always")
WithComment == <<Do("BatchGetUsers")>>
WithConversation == All(<<"BatchGetProducts", "BatchGetUsers", "conversation">>)

(* Accounts. *)
RegisterUser == All(<<"body", "Register">>) \o Scores
LoginUser == All(<<"body", "Login">>) \o Scores
LogoutUser == << >>   \* tokens are not kept anywhere
Me == <<Do("GetProfile")>> \o Scores
UpdateMe == All(<<"body", "UpdateProfile">>) \o Scores
Profile == <<Do("GetUser")>> \o Scores \o Stats
ChangeMyPassword == All(<<"body", "ChangePassword">>)

(* Products. *)
List == All(<<"query", "ListProducts">>) \o WithPage
ListMine == All(<<"query", "ListUserProducts">>) \o WithMyPage
ListByUser == All(<<"GetUser", "query", "ListUserProducts">>) \o WithPage

(* Mutant: the contact is asked for after the product has been created.    *)
PublishFirst ==
  All(<<"form", "fields", "files", "CreateProduct", "GetUser", "contact">>) \o WithDetail

(* A product is published only by a user with contact data. *)
Publish ==
  All(<<"GetUser", "contact", "form", "fields", "files", "CreateProduct">>) \o WithDetail

Get == <<Do("GetProduct")>> \o WithDetail
Update == All(<<"body", "fields", "UpdateProduct">>) \o WithDetail
AddImages == All(<<"form", "files", "AddProductImages">>)
DeleteImage == <<Do("DeleteProductImage")>>
OffShelf == <<Do("OffShelfProduct")>> \o WithDetail
Relist == <<Do("RelistProduct")>> \o WithDetail
WriteComment == All(<<"body", "CreateProductComment">>) \o WithComment
ListComments == All(<<"query", "ListProductComments">>) \o Users

(* Trades. *)
AskFor == All(<<"body", "key", "CreateTrade">>) \o WithTrade
ListTrades == All(<<"query", "ListTrades">>) \o Contacts("items")
ShowTrade == <<Do("GetTrade")>> \o WithTrade
AcceptTrade == All(<<"key", "AcceptTrade">>) \o WithTrade
RejectTrade == All(<<"body", "key", "RejectTrade">>) \o WithTrade
CancelTrade == All(<<"body", "key", "CancelTrade">>) \o WithTrade
ConfirmTrade == All(<<"key", "ConfirmTrade">>) \o WithTrade
WriteReview == All(<<"body", "CreateTradeReview", "BatchGetUsers">>)

(* Favorites. *)
ListFavorites ==
  All(<<"query", "ListFavorites">>) \o Products \o <<If("items", "favorites")>> \o Users

(* Mutant: a product is added without asking Marketplace for it. *)
CollectBlindly == All(<<"id", "AddFavorite">>)

(* Favorite asks Marketplace for the product before its own transaction.   *)
Collect == All(<<"id", "GetProduct", "AddFavorite">>)
Discard == <<Do("RemoveFavorite")>>

(* Conversations. *)
OpenConversation == All(<<"key", "id", "GetOrCreateConversation">>) \o WithConversation
ListConversations ==
  All(<<"query", "ListConversations">>) \o Products \o Users \o <<If("items", "conversation")>>
UnreadCount == <<Do("GetUnreadCount")>>
ListMessages == All(<<"query", "ListMessages">>) \o Users
SendMessage == All(<<"body", "key", "SendMessage", "BatchGetUsers">>)
MarkRead == All(<<"body", "MarkConversationRead">>)

(* The routes. *)
Plan ==
  [registerUser |-> RegisterUser, loginUser |-> LoginUser, logoutUser |-> LogoutUser,
   getCurrentUser |-> Me, updateCurrentUser |-> UpdateMe, getUserProfile |-> Profile,
   changeCurrentUserPassword |-> ChangeMyPassword,
   listProducts |-> List, listCurrentUserProducts |-> ListMine, listUserProducts |-> ListByUser,
   createProduct |-> Publish, getProduct |-> Get, updateProduct |-> Update,
   addProductImages |-> AddImages, deleteProductImage |-> DeleteImage,
   offShelfProduct |-> OffShelf, relistProduct |-> Relist,
   createProductComment |-> WriteComment, listProductComments |-> ListComments,
   createTrade |-> AskFor, listTrades |-> ListTrades, getTrade |-> ShowTrade,
   acceptTrade |-> AcceptTrade, rejectTrade |-> RejectTrade, cancelTrade |-> CancelTrade,
   confirmTrade |-> ConfirmTrade, createTradeReview |-> WriteReview,
   listFavorites |-> ListFavorites, addFavorite |-> Collect, removeFavorite |-> Discard,
   getOrCreateProductConversation |-> OpenConversation,
   listConversations |-> ListConversations, getConversationUnreadCount |-> UnreadCount,
   listConversationMessages |-> ListMessages, sendConversationMessage |-> SendMessage,
   markConversationRead |-> MarkRead]

(* Refusals of the handler itself: a flaw is noticed by the step that      *)
(* looks for it.                                                           *)
BodyRefusal(r) ==
  IF r.flaw = "large" THEN "PAYLOAD_TOO_LARGE" ELSE Wrong(r.flaw = "body", "VALIDATION_ERROR")
FormRefusal(r) ==
  IF r.flaw = "large" THEN "PAYLOAD_TOO_LARGE" ELSE Wrong(r.flaw = "form", "VALIDATION_ERROR")
FilesRefusal(r) ==
  IF r.flaw = "many" THEN "IMAGE_LIMIT_EXCEEDED" ELSE Wrong(r.flaw = "files", "VALIDATION_ERROR")
FieldsRefusal(r) == Wrong(r.flaw = "fields", "VALIDATION_ERROR")
QueryRefusal(r) == Wrong(r.flaw = "query", "VALIDATION_ERROR")
KeyRefusal(r) == Wrong(r.flaw = "key", "VALIDATION_ERROR")
(* Favorite and Messaging look at a product's identifier before they do    *)
(* anything else, Favorite only at its length.                             *)
IdRefusal(r) ==
  Wrong(\/ r.flaw = "invalid"
        \/ r.flaw = "unfitId" /\ r.ep = "getOrCreateProductConversation", "VALIDATION_ERROR")
ContactRefusal(seen) == Wrong("contact" \notin seen, "CONTACT_REQUIRED")
(* A favorite or a conversation about a product that Marketplace does not  *)
(* know cannot be shown.                                                   *)
FavoriteRefused(seen) == Wrong("products" \notin seen, "INTERNAL_ERROR")
ConversationRefused(r, seen) ==
  Wrong("products" \notin seen \/ r.actor \notin Party, "INTERNAL_ERROR")

CheckRefusal(step, r, seen) ==
  CASE step = "body" -> BodyRefusal(r)
    [] step = "form" -> FormRefusal(r)
    [] step = "files" -> FilesRefusal(r)
    [] step = "fields" -> FieldsRefusal(r)
    [] step = "query" -> QueryRefusal(r)
    [] step = "key" -> KeyRefusal(r)
    [] step = "id" -> IdRefusal(r)
    [] step = "contact" -> ContactRefusal(seen)
    [] step = "favorites" -> FavoriteRefused(seen)
    [] step = "conversation" -> ConversationRefused(r, seen)

Created == {"registerUser", "createProduct", "addProductImages", "createProductComment",
            "createTradeReview", "sendConversationMessage"}
Success(r, seen) == IF r.ep \in Created \/ "created" \in seen THEN 201 ELSE 200

-----------------------------------------------------------------------------
(* Steps of a request. *)

StepOf(s) == Plan[slot[s].req.ep][slot[s].i]
Left(s) == slot[s].i <= Len(Plan[slot[s].req.ep])
Skipped(s) == StepOf(s).when # "always" /\ StepOf(s).when \notin slot[s].seen
Current(s) == StepOf(s).do
Calling(s) == slot[s].pc = "step" /\ Left(s) /\ ~Skipped(s) /\ Current(s) \in Rpc

(* The first call says what the client said, but publishing asks first who *)
(* publishes; a message holds only UTF-8.                                  *)
Sendable(s) ==
  LET r == slot[s].req IN
  r.flaw = "bytes" => r.ep = "createProduct" /\ Current(s) = "GetUser"

(* Connections in use: an inner call keeps the connection of the outer one. *)
Holds(s) ==
  IF slot[s].pc \in {"run", "back"} THEN {ServiceOf(Current(s))}
  ELSE IF slot[s].pc = "inner"
  THEN {ServiceOf(Current(s)), ServiceOf(InnerCall(Current(s), slot[s].req))} ELSE {}
InUse(service) == Cardinality({s \in Slot : service \in Holds(s)})
                    + Cardinality({o \in orphans : service \in o.holds})
Free(service) == InUse(service) < MaxConns

(* An answer is due to a fault if a call of the request failed. *)
Finished(s, status, fault) ==
  slot' = [slot EXCEPT ![s] = [pc |-> "done", req |-> @.req, status |-> status,
                               wrote |-> @.wrote, fault |-> fault]]
Fails(s, err) == Finished(s, StatusFor(CodeOf(err)), FALSE)

Begin(s, r) ==
  /\ slot[s] = Idle
  /\ \A t \in Slot : t < s => slot[t] # Idle
  /\ \A t \in Slot : slot[t] # Idle => Together(slot[t].req, r)
  /\ slot' = [slot EXCEPT ![s] = [pc |-> "step", req |-> r, i |-> 1, seen |-> {}, wrote |-> FALSE]]
  /\ UNCHANGED <<db, orphans>>

Skip(s) ==
  /\ slot[s].pc = "step" /\ Left(s) /\ Skipped(s)
  /\ slot' = [slot EXCEPT ![s].i = @ + 1]
  /\ UNCHANGED <<db, orphans>>

Check(s) ==
  LET code == CheckRefusal(Current(s), slot[s].req, slot[s].seen) IN
  /\ slot[s].pc = "step" /\ Left(s) /\ ~Skipped(s) /\ Current(s) \notin Rpc
  /\ IF code = OK THEN slot' = [slot EXCEPT ![s].i = @ + 1] ELSE Fails(s, Wire(code))
  /\ UNCHANGED <<db, orphans>>

(* The client library refuses to send the call. *)
Unsent(s) ==
  /\ Calling(s) /\ ~Sendable(s)
  /\ Fails(s, Raw("Internal"))
  /\ UNCHANGED <<db, orphans>>

(* The call waits for a connection of its service. *)
Connect(s) ==
  /\ Calling(s) /\ Sendable(s) /\ Free(ServiceOf(Current(s)))
  /\ slot' = [slot EXCEPT ![s].pc = "run"]
  /\ UNCHANGED <<db, orphans>>

(* Inside its transaction it waits for one of the other service.           *)
CallInner(s) ==
  LET inner == InnerCall(Current(s), slot[s].req) IN
  /\ slot[s].pc = "run" /\ inner # NoCall /\ Free(ServiceOf(inner))
  /\ slot' = [slot EXCEPT ![s].pc = "inner"]
  /\ UNCHANGED <<db, orphans>>

(* What a service says when another one refuses: whatever it is, unless    *)
(* nothing was found, it was not expected.                                 *)
InnerCode(code) == IF code \in {OK, "RESOURCE_NOT_FOUND"} THEN code ELSE "INTERNAL_ERROR"

InnerAnswer(s) ==
  /\ slot[s].pc = "inner"
  /\ LET code == InnerCode(Refusal(InnerCall(Current(s), slot[s].req), slot[s].req)) IN
       IF code = OK THEN slot' = [slot EXCEPT ![s].pc = "back"] ELSE Fails(s, Wire(code))
  /\ UNCHANGED <<db, orphans>>

Ready(s) ==
  \/ slot[s].pc = "back"
  \/ slot[s].pc = "run" /\ InnerCall(Current(s), slot[s].req) = NoCall

(* The transaction commits, or rolls back with a refusal, and the answer   *)
(* reaches the handler.                                                    *)
Reply(s) ==
  LET r == slot[s].req
      code == Refusal(Current(s), r)
  IN
  /\ Ready(s)
  /\ IF code = OK
     THEN /\ db' = Effect(Current(s), r)
          /\ slot' = [slot EXCEPT ![s].pc = "step", ![s].i = @ + 1,
                                  ![s].seen = @ \cup Learned(Current(s), r),
                                  ![s].wrote = @ \/ Current(s) \in Writing]
     ELSE UNCHANGED db /\ Fails(s, Wire(code))
  /\ UNCHANGED orphans

Respond(s) ==
  /\ slot[s].pc = "step" /\ ~Left(s)
  /\ Finished(s, Success(slot[s].req, slot[s].seen), FALSE)
  /\ UNCHANGED <<db, orphans>>

(* Mutant: only the wait for a first connection has a deadline. *)
MayFailOuter(s) == Calling(s)

(* A call may fail wherever it is: its deadline passes, its service cannot *)
(* be reached, or its database fails.                                      *)
MayFail(s) == Calling(s) \/ slot[s].pc \in {"run", "inner", "back"}

(* The handler gives up; a transaction that had only to commit may do so   *)
(* later, the others hold their connections until they notice.             *)
GiveUp(s) ==
  /\ MayFail(s)
  /\ \E err \in {Raw("DeadlineExceeded"), Raw("Unavailable"), Wire("INTERNAL_ERROR")} :
       Finished(s, StatusFor(CodeOf(err)), TRUE)
  /\ orphans' = IF Calling(s) THEN orphans
                ELSE orphans \cup {[slot |-> s, holds |-> Holds(s), rpc |-> Current(s),
                                    late |-> Ready(s) /\ Current(s) \in Writing]}
  /\ UNCHANGED db

(* A transaction nobody waits for ends. *)
Land(o) ==
  LET r == slot[o.slot].req IN
  /\ orphans' = orphans \ {o}
  /\ \/ UNCHANGED <<db, slot>>
     \/ /\ o.late /\ Refusal(o.rpc, r) = OK
        /\ db' = Effect(o.rpc, r)
        /\ slot' = [slot EXCEPT ![o.slot].wrote = TRUE]

Init ==
  /\ db \in Start
  /\ slot = [s \in Slot |-> Idle]
  /\ orphans = {}

Proceed(s) == Skip(s) \/ Check(s) \/ Unsent(s) \/ Connect(s) \/ CallInner(s)
                \/ InnerAnswer(s) \/ Reply(s) \/ Respond(s)

Next ==
  \/ \E s \in Slot :
       \/ \E r \in Request : Begin(s, r)
       \/ Skip(s) \/ Check(s) \/ Unsent(s) \/ Connect(s) \/ CallInner(s)
       \/ InnerAnswer(s) \/ Reply(s) \/ Respond(s)
       \/ GiveUp(s)
  \/ \E o \in orphans : Land(o)

(* Threads run, deadlines pass, and services notice cancelled calls.       *)
Fairness ==
  /\ \A s \in Slot : WF_vars(Proceed(s)) /\ WF_vars(GiveUp(s))
  /\ WF_vars(\E o \in orphans : Land(o))

Spec == Init /\ [][Next]_vars /\ Fairness

-----------------------------------------------------------------------------
(* Properties. *)

Done(s) == slot[s].pc = "done"

(* A client that is told its request was refused can rely on it: nothing   *)
(* of the request has been committed by any service, nor will be.          *)
RefusalsAreClean ==
  \A s \in Slot : Done(s) /\ slot[s].status \in 400..499 =>
    ~slot[s].wrote /\ \A o \in orphans : o.slot = s => ~o.late

(* INTERNAL_ERROR is never the answer to a state of the services that      *)
(* clients can bring about, together or alone: it means that a call of the *)
(* request has failed, unless the request has one of the flaws that no     *)
(* check looks for before a database, an object store or a message cannot  *)
(* hold it, or the one that InnerCode takes for a fault.                   *)
OnlyFaultsFail ==
  \A s \in Slot : Done(s) /\ slot[s].status = 500 =>
    slot[s].fault \/ slot[s].req.flaw \in Unnoticed \/ slot[s].req.conv = "illegal"

(* Every status that can be the result is one the API description declares *)
(* for the endpoint, or one of the known gaps of the description.          *)
AnswersWithinContract ==
  \A s \in Slot : Done(s) =>
    slot[s].status \in Declared(slot[s].req.ep) \cup UndeclaredStatus(slot[s].req.ep)

(* The contact data of two users is looked up only for a request of one    *)
(* of them, about a trade they share.                                      *)
ContactsStayBetweenParties ==
  \A s \in Slot : Calling(s) /\ Current(s) = "BatchGetUserContacts" =>
    slot[s].req.actor \in Party /\ db.trade # "NONE"

(* Also when every connection of two services is held by calls that wait   *)
(* for the other one, every request is answered.                           *)
EveryRequestAnswered == \A s \in Slot : (slot[s] # Idle) ~> Done(s)
=============================================================================
