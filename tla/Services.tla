-------------------------------- MODULE Services -------------------------------
(***************************************************************************)
(* The four services as the Gateway sees them: their RPCs, what each one   *)
(* refuses, what it changes, and what a handler learns from its answer.    *)
(* They are seen through one product of Seller, its trade and conversation *)
(* with Buyer, and everybody's favorites; Marketplace, TradeTx, Messaging, *)
(* ProductImages and Account model their insides.  Idempotency keys are    *)
(* left to those models.                                                   *)
(*                                                                         *)
(* A request r is [ep, actor, flaw, conv]: the endpoint, who calls it, what *)
(* is wrong with it (or "none"), and the conversation it names.            *)
(***************************************************************************)
EXTENDS Contract

CONSTANTS Buyer, Seller, Stranger

VARIABLE db   \* state of the services

Party == {Buyer, Seller}
Actor == {Buyer, Seller, Stranger}

(* What a request may be, and the states of the services.  Some flaws are  *)
(* not looked for anywhere: an identifier or a text with a NUL, which no   *)
(* table and no directory can hold ("unfitId", "unfitText"), a page whose  *)
(* offset overflows ("page"), and text that is not UTF-8, which no message *)
(* to a service can hold ("bytes").                                        *)
Unnoticed == {"unfitId", "unfitText", "page", "bytes"}
Flaw == {"none", "query", "body", "key", "form", "fields", "files", "large", "many",
         "password", "missing", "invalid"} \cup Unnoticed
(* A conversation may be left out or given as null; "illegal" has a NUL.   *)
Conversation == {"none", "null", "own", "foreign", "unknown", "illegal"}
AnyRequest == [ep : Endpoint, actor : Actor, flaw : Flaw, conv : Conversation]

MaxImages == 3
Database ==
  [registered : BOOLEAN, contact : SUBSET Actor,
   product : {"NONE", "ON_SALE", "OFF_SHELF", "RESERVED", "SOLD"}, images : 0..MaxImages,
   trade : {"NONE", "PENDING", "ACCEPTED", "COMPLETED", "CANCELLED"},
   confirmed : SUBSET Party, bound : BOOLEAN, review : BOOLEAN, comments : BOOLEAN,
   conversation : BOOLEAN, wrote : SUBSET Party, favorites : SUBSET Actor]

AccountRpc == {"Register", "Login", "GetUser", "GetProfile", "BatchGetUsers",
               "BatchGetUserContacts", "UpdateProfile", "ChangePassword"}
ProductRpc ==
  {"CreateProduct", "GetProduct", "ListProducts", "ListUserProducts", "BatchGetProducts",
   "UpdateProduct", "AddProductImages", "DeleteProductImage", "OffShelfProduct",
   "RelistProduct"}
TradeRpc ==
  {"CreateTrade", "GetTrade", "ListTrades", "AcceptTrade", "RejectTrade", "CancelTrade",
   "ConfirmTrade"}
ReviewRpc == {"CreateTradeReview", "BatchGetProductTradeReviews",
              "BatchGetUserAverageScores", "GetUserStats"}
CommentRpc == {"CreateProductComment", "ListProductComments"}
MarketplaceRpc == ProductRpc \cup TradeRpc \cup ReviewRpc \cup CommentRpc
MessagingRpc ==
  {"GetOrCreateConversation", "GetConversation", "ListConversations", "GetUnreadCount",
   "ListMessages", "SendMessage", "MarkConversationRead"}
FavoriteRpc == {"AddFavorite", "RemoveFavorite", "ListFavorites", "IsFavorited"}

Rpc == AccountRpc \cup MarketplaceRpc \cup MessagingRpc \cup FavoriteRpc

ServiceOf(rpc) ==
  CASE rpc \in AccountRpc -> "account"
    [] rpc \in MarketplaceRpc -> "marketplace"
    [] rpc \in MessagingRpc -> "messaging"
    [] rpc \in FavoriteRpc -> "favorite"

(* What a service asks of another one while its transaction is open: the   *)
(* conversation an intent is bound to, the product a conversation is about. *)
NoCall == "none"
InnerCall(rpc, r) ==
  CASE rpc = "CreateTrade" /\ r.conv \notin {"none", "null"} -> "GetConversation"
    [] rpc = "GetOrCreateConversation" -> "GetProduct"
    [] OTHER -> NoCall

(* Refusals, or OK; of several the first that applies. *)
OK == "OK"
Wrong(cond, code) == IF cond THEN code ELSE OK
first ?? next == IF first = OK THEN next ELSE first

Unchanged == db
Missing(cond) == Wrong(cond, "RESOURCE_NOT_FOUND")
Invalid(r) == Wrong(r.flaw = "invalid", "VALIDATION_ERROR")
(* What the database or the object store cannot take.                      *)
UnfitId(r) == Wrong(r.flaw = "unfitId", "INTERNAL_ERROR")
UnfitText(r) == Wrong(r.flaw = "unfitText", "INTERNAL_ERROR")
PageOverflows(r) == Wrong(r.flaw = "page", "INTERNAL_ERROR")
NotSeller(r) == Wrong(r.actor # Seller, "FORBIDDEN")

-----------------------------------------------------------------------------
(* Account. *)

RefuseRegister(r) == Invalid(r) ?? UnfitText(r) ?? Wrong(db.registered, "STUDENT_NO_EXISTS")
RefuseLogin(r) == Wrong(r.flaw = "password" \/ ~db.registered, "UNAUTHORIZED")
RefuseGetUser(r) == UnfitId(r) ?? Missing(r.flaw = "missing")
RefuseUpdateProfile(r) == Invalid(r) ?? UnfitText(r)
RefuseChangePassword(r) == Invalid(r) ?? Wrong(r.flaw = "password", "UNAUTHORIZED")

AccountRefusal(rpc, r) ==
  CASE rpc = "Register" -> RefuseRegister(r)
    [] rpc = "Login" -> RefuseLogin(r)
    [] rpc = "GetUser" -> RefuseGetUser(r)
    [] rpc = "UpdateProfile" -> RefuseUpdateProfile(r)
    [] rpc = "ChangePassword" -> RefuseChangePassword(r)
    [] OTHER -> OK

AfterRegister == [db EXCEPT !.registered = TRUE]
(* The contact data of a profile can be changed but never taken away.      *)
AfterUpdateProfile(r) == [db EXCEPT !.contact = @ \cup {r.actor}]

AccountEffect(rpc, r) ==
  CASE rpc = "Register" -> AfterRegister
    [] rpc = "UpdateProfile" -> AfterUpdateProfile(r)
    [] OTHER -> Unchanged

-----------------------------------------------------------------------------
(* Marketplace: products and comments. *)

NoProduct(r) == UnfitId(r) ?? Missing(r.flaw = "missing" \/ db.product = "NONE")

(* Ownership, then the state of the product, then a pending intent.        *)
OwnContent(r) ==
  NotSeller(r) ?? Wrong(db.product \notin {"ON_SALE", "OFF_SHELF"}, "PRODUCT_STATE_CONFLICT")
Undecided == Wrong(db.trade = "PENDING", "TRADE_STATE_CONFLICT")
ContentRefusals(r) == OwnContent(r) ?? Undecided

RefuseCreateProduct(r) == Invalid(r) ?? UnfitText(r)
RefuseGetProduct(r) == NoProduct(r)
RefuseListProducts(r) == UnfitText(r) ?? PageOverflows(r)
RefuseListUserProducts(r) == PageOverflows(r)
RefuseUpdateProduct(r) == NoProduct(r) ?? ContentRefusals(r) ?? Invalid(r) ?? UnfitText(r)
RefuseAddImages(r) ==
  Invalid(r) ?? NoProduct(r) ?? ContentRefusals(r)
    ?? Wrong(db.images = MaxImages, "IMAGE_LIMIT_EXCEEDED")
RefuseDeleteImage(r) ==
  NoProduct(r) ?? ContentRefusals(r) ?? Missing(db.images = 0)
RefuseOffShelf(r) ==
  NoProduct(r) ?? NotSeller(r)
    ?? Wrong(db.product # "ON_SALE", "PRODUCT_STATE_CONFLICT") ?? Undecided
RefuseRelist(r) ==
  NoProduct(r) ?? NotSeller(r)
    ?? Wrong(db.product # "OFF_SHELF", "PRODUCT_STATE_CONFLICT")

ProductRefusal(rpc, r) ==
  CASE rpc = "CreateProduct" -> RefuseCreateProduct(r)
    [] rpc = "GetProduct" -> RefuseGetProduct(r)
    [] rpc = "ListProducts" -> RefuseListProducts(r)
    [] rpc = "ListUserProducts" -> RefuseListUserProducts(r)
    [] rpc = "UpdateProduct" -> RefuseUpdateProduct(r)
    [] rpc = "AddProductImages" -> RefuseAddImages(r)
    [] rpc = "DeleteProductImage" -> RefuseDeleteImage(r)
    [] rpc = "OffShelfProduct" -> RefuseOffShelf(r)
    [] rpc = "RelistProduct" -> RefuseRelist(r)
    [] OTHER -> OK

(* Whoever publishes next has another product, which is not followed.      *)
AfterCreateProduct == [db EXCEPT !.product = IF @ = "NONE" THEN "ON_SALE" ELSE @]
AfterAddImages == [db EXCEPT !.images = @ + 1]
AfterDeleteImage == [db EXCEPT !.images = @ - 1]
AfterOffShelf == [db EXCEPT !.product = "OFF_SHELF"]
AfterRelist == [db EXCEPT !.product = "ON_SALE"]

ProductEffect(rpc) ==
  CASE rpc = "CreateProduct" -> AfterCreateProduct
    [] rpc = "AddProductImages" -> AfterAddImages
    [] rpc = "DeleteProductImage" -> AfterDeleteImage
    [] rpc = "OffShelfProduct" -> AfterOffShelf
    [] rpc = "RelistProduct" -> AfterRelist
    [] OTHER -> Unchanged

RefuseComment(r) == Invalid(r) ?? UnfitText(r) ?? NoProduct(r)
RefuseListComments(r) == NoProduct(r) ?? PageOverflows(r)
CommentRefusal(rpc, r) ==
  IF rpc = "CreateProductComment" THEN RefuseComment(r) ELSE RefuseListComments(r)
AfterComment == [db EXCEPT !.comments = TRUE]

-----------------------------------------------------------------------------
(* Marketplace: trades and reviews. *)

(* To anybody else the trade does not exist. *)
NoTrade(r) ==
  UnfitId(r) ?? Missing(r.flaw = "missing" \/ db.trade = "NONE" \/ r.actor \notin Party)

(* A buyer's intent while it is live: asking again finds it.               *)
Active == db.trade \in {"PENDING", "ACCEPTED"}
Mine(r) == r.actor = Buyer /\ Active
Bound == IF db.bound THEN "own" ELSE "null"

(* The conversation has been read by the time this is looked at.           *)
RefuseNewIntent(r) ==
  Wrong(r.conv = "foreign" \/ (r.conv = "own" /\ r.actor # Buyer), "CONVERSATION_MISMATCH")
    ?? Wrong(r.actor = Seller, "SELF_ACTION_NOT_ALLOWED")
    ?? Wrong(db.product # "ON_SALE", "PRODUCT_NOT_AVAILABLE")
RefuseCreateTrade(r) ==
  NoProduct(r)
    ?? (IF Mine(r) THEN Wrong(r.conv \notin {"none", Bound}, "CONVERSATION_MISMATCH")
        ELSE RefuseNewIntent(r))

(* Mutant: a trade is shown to everybody. *)
RefuseGetTradeOpen(r) == UnfitId(r) ?? Missing(r.flaw = "missing" \/ db.trade = "NONE")

RefuseGetTrade(r) == NoTrade(r)
RefuseAccept(r) ==
  NoTrade(r) ?? NotSeller(r)
    ?? Wrong(db.trade # "PENDING", "TRADE_STATE_CONFLICT")
    ?? Wrong(db.product # "ON_SALE", "PRODUCT_NOT_AVAILABLE")
RefuseReject(r) ==
  NoTrade(r) ?? NotSeller(r) ?? Wrong(db.trade # "PENDING", "TRADE_STATE_CONFLICT")
    ?? UnfitText(r)
RefuseCancel(r) ==
  NoTrade(r) ?? Wrong(db.trade = "PENDING" /\ r.actor = Seller, "FORBIDDEN")
    ?? Wrong(~Active, "TRADE_STATE_CONFLICT") ?? UnfitText(r)
RefuseListTrades(r) == PageOverflows(r)
(* A completed trade is shown again. *)
RefuseConfirm(r) ==
  NoTrade(r)
    ?? Wrong(db.trade \notin {"ACCEPTED", "COMPLETED"}, "TRADE_STATE_CONFLICT")

TradeRefusal(rpc, r) ==
  CASE rpc = "CreateTrade" -> RefuseCreateTrade(r)
    [] rpc = "GetTrade" -> RefuseGetTrade(r)
    [] rpc = "ListTrades" -> RefuseListTrades(r)
    [] rpc = "AcceptTrade" -> RefuseAccept(r)
    [] rpc = "RejectTrade" -> RefuseReject(r)
    [] rpc = "CancelTrade" -> RefuseCancel(r)
    [] rpc = "ConfirmTrade" -> RefuseConfirm(r)
    [] OTHER -> OK

AfterCreateTrade(r) ==
  IF Active THEN db
  ELSE [db EXCEPT !.trade = "PENDING", !.confirmed = {}, !.bound = (r.conv = "own")]
AfterAccept == [db EXCEPT !.trade = "ACCEPTED", !.product = "RESERVED"]
AfterReject == [db EXCEPT !.trade = "CANCELLED"]
AfterCancel ==
  [db EXCEPT !.trade = "CANCELLED",
             !.product = IF db.trade = "ACCEPTED" THEN "ON_SALE" ELSE @]
AfterConfirm(r) ==
  IF db.confirmed \cup {r.actor} = Party
  THEN [db EXCEPT !.trade = "COMPLETED", !.product = "SOLD", !.confirmed = Party]
  ELSE [db EXCEPT !.confirmed = @ \cup {r.actor}]

TradeEffect(rpc, r) ==
  CASE rpc = "CreateTrade" -> AfterCreateTrade(r)
    [] rpc = "AcceptTrade" -> AfterAccept
    [] rpc = "RejectTrade" -> AfterReject
    [] rpc = "CancelTrade" -> AfterCancel
    [] rpc = "ConfirmTrade" -> AfterConfirm(r)
    [] OTHER -> Unchanged

RefuseReview(r) ==
  NoTrade(r) ?? Wrong(r.actor # Buyer \/ db.trade # "COMPLETED", "FORBIDDEN")
    ?? UnfitText(r) ?? Wrong(db.review, "TRADE_REVIEW_ALREADY_EXISTS")
ReviewRefusal(rpc, r) == IF rpc = "CreateTradeReview" THEN RefuseReview(r) ELSE OK
AfterReview == [db EXCEPT !.review = TRUE]

-----------------------------------------------------------------------------
(* Messaging and Favorite. *)

(* Messaging looks at the identifiers it is given, unlike the others.      *)
Outside(r) == ~db.conversation \/ r.actor \notin Party
NoConversation(r) ==
  Wrong(r.flaw = "unfitId", "VALIDATION_ERROR") ?? Missing(r.flaw = "missing" \/ Outside(r))

RefuseGetConversation(r) ==
  Wrong(r.conv = "illegal", "VALIDATION_ERROR")
    ?? Missing(r.conv = "unknown" \/ (r.conv = "own" /\ Outside(r)))
RefuseOpen(r) == Wrong(r.actor = Seller, "SELF_ACTION_NOT_ALLOWED")
RefuseListConversations(r) == PageOverflows(r)
RefuseListMessages(r) == NoConversation(r) ?? Invalid(r) ?? UnfitText(r)
RefuseSend(r) == NoConversation(r)
(* Only messages of the other side can be marked. *)
RefuseMarkRead(r) ==
  NoConversation(r) ?? Missing(db.wrote = {})
    ?? Wrong(db.wrote = {r.actor}, "VALIDATION_ERROR")

MessagingRefusal(rpc, r) ==
  CASE rpc = "GetConversation" -> RefuseGetConversation(r)
    [] rpc = "GetOrCreateConversation" -> RefuseOpen(r)
    [] rpc = "ListConversations" -> RefuseListConversations(r)
    [] rpc = "ListMessages" -> RefuseListMessages(r)
    [] rpc = "SendMessage" -> RefuseSend(r)
    [] rpc = "MarkConversationRead" -> RefuseMarkRead(r)
    [] OTHER -> OK

AfterOpen(r) == [db EXCEPT !.conversation = @ \/ r.actor = Buyer]
AfterSend(r) == [db EXCEPT !.wrote = @ \cup {r.actor}]

MessagingEffect(rpc, r) ==
  CASE rpc = "GetOrCreateConversation" -> AfterOpen(r)
    [] rpc = "SendMessage" -> AfterSend(r)
    [] OTHER -> Unchanged

RefuseAddFavorite(r) == Wrong(r.actor = Seller, "SELF_ACTION_NOT_ALLOWED")
RefuseRemoveFavorite(r) == Invalid(r) ?? UnfitId(r)
RefuseListFavorites(r) == PageOverflows(r)
FavoriteRefusal(rpc, r) ==
  CASE rpc = "AddFavorite" -> RefuseAddFavorite(r)
    [] rpc = "RemoveFavorite" -> RefuseRemoveFavorite(r)
    [] rpc = "ListFavorites" -> RefuseListFavorites(r)
    [] OTHER -> OK

AfterAddFavorite(r) == [db EXCEPT !.favorites = @ \cup {r.actor}]
AfterRemoveFavorite(r) == [db EXCEPT !.favorites = @ \ {r.actor}]
FavoriteEffect(rpc, r) ==
  CASE rpc = "AddFavorite" -> AfterAddFavorite(r)
    [] rpc = "RemoveFavorite" -> AfterRemoveFavorite(r)
    [] OTHER -> Unchanged

-----------------------------------------------------------------------------
(* Any call. *)

Refusal(rpc, r) ==
  CASE rpc \in AccountRpc -> AccountRefusal(rpc, r)
    [] rpc \in ProductRpc -> ProductRefusal(rpc, r)
    [] rpc \in CommentRpc -> CommentRefusal(rpc, r)
    [] rpc \in TradeRpc -> TradeRefusal(rpc, r)
    [] rpc \in ReviewRpc -> ReviewRefusal(rpc, r)
    [] rpc \in MessagingRpc -> MessagingRefusal(rpc, r)
    [] rpc \in FavoriteRpc -> FavoriteRefusal(rpc, r)

(* What a call that is not refused changes. *)
Effect(rpc, r) ==
  CASE rpc \in AccountRpc -> AccountEffect(rpc, r)
    [] rpc \in ProductRpc -> ProductEffect(rpc)
    [] rpc = "CreateProductComment" -> AfterComment
    [] rpc \in TradeRpc -> TradeEffect(rpc, r)
    [] rpc = "CreateTradeReview" -> AfterReview
    [] rpc \in MessagingRpc -> MessagingEffect(rpc, r)
    [] rpc \in FavoriteRpc -> FavoriteEffect(rpc, r)
    [] OTHER -> Unchanged

(* Calls that open a transaction which changes something. *)
Writing ==
  {"Register", "UpdateProfile", "ChangePassword", "CreateProduct", "UpdateProduct",
   "AddProductImages", "DeleteProductImage", "OffShelfProduct", "RelistProduct",
   "CreateProductComment", "CreateTrade", "AcceptTrade", "RejectTrade", "CancelTrade",
   "ConfirmTrade", "CreateTradeReview", "GetOrCreateConversation", "SendMessage",
   "MarkConversationRead", "AddFavorite", "RemoveFavorite"}

-----------------------------------------------------------------------------
(* What a handler learns from an answer: whether there is somebody or      *)
(* something to look up next.                                              *)

Facts(cond, fact) == IF cond THEN {fact} ELSE {}

Detailed == Facts(db.product = "SOLD", "sold")
HasContact(r) == Facts(r.actor \in db.contact, "contact")
OnShelf == Facts(db.product = "ON_SALE", "items")
(* Other people's lists show what is on sale or sold, one's own everything. *)
OfSeller(r) ==
  Facts(\/ r.ep = "listUserProducts" /\ db.product \in {"ON_SALE", "SOLD"}
        \/ r.ep = "listCurrentUserProducts" /\ r.actor = Seller /\ db.product # "NONE",
        "items")
Existing == Facts(db.product # "NONE", "products")
Reviewed == Facts(db.review, "review")
TradesOf(r) == Facts(r.actor \in Party /\ db.trade # "NONE", "items")
NewIntent == Facts(~Active, "created")
Commented == Facts(db.comments, "items")
FavoritesOf(r) == Facts(r.actor \in db.favorites, "items")
ConversationsOf(r) == Facts(db.conversation /\ r.actor \in Party, "items")
Messages == Facts(db.wrote # {}, "items")

Learned(rpc, r) ==
  CASE rpc \in {"GetProduct", "CreateProduct", "UpdateProduct", "OffShelfProduct",
                "RelistProduct"} -> Detailed
    [] rpc = "GetUser" -> HasContact(r)
    [] rpc = "ListProducts" -> OnShelf
    [] rpc = "ListUserProducts" -> OfSeller(r)
    [] rpc = "BatchGetProducts" -> Existing
    [] rpc = "BatchGetProductTradeReviews" -> Reviewed
    [] rpc = "ListTrades" -> TradesOf(r)
    [] rpc = "CreateTrade" -> NewIntent
    [] rpc = "ListProductComments" -> Commented
    [] rpc = "ListFavorites" -> FavoritesOf(r)
    [] rpc = "ListConversations" -> ConversationsOf(r)
    [] rpc = "ListMessages" -> Messages
    [] OTHER -> {}
=============================================================================
