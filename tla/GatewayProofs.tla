----------------------------- MODULE GatewayProofs -----------------------------
(***************************************************************************)
(* What the Gateway promises its clients, for any number of requests under *)
(* way, any connections, and any requests and states of the services that  *)
(* are as Gateway assumes; then what the Account service behind it         *)
(* promises about passwords and about the changes owners make.             *)
(*                                                                         *)
(* The argument for the Gateway has two halves.  What the route of every   *)
(* handler guarantees about the order of its checks and calls (Sound) is   *)
(* proved route by route.  The invariant then needs a route only through   *)
(* these guarantees, and a service only through what it refuses (Denies),  *)
(* what it never takes away (Leaves) and what its answers tell (Learns).   *)
(***************************************************************************)
EXTENDS Gateway, Account, TLAPS

-----------------------------------------------------------------------------
(* What is true of the plan of every route.                                *)

Outer == Rpc \ {"GetConversation"}   \* calls of the Gateway itself
Checks == {"body", "form", "files", "fields", "query", "key", "id", "contact",
           "favorites", "conversation"}

(* The steps that may end a request with each status.                      *)
Refuses400 == {"body", "form", "files", "fields", "query", "key", "id", "contact",
               "Register", "UpdateProfile", "ChangePassword", "CreateProduct",
               "UpdateProduct", "AddProductImages", "CreateProductComment", "ListMessages",
               "SendMessage", "MarkConversationRead", "RemoveFavorite"}
Refuses401 == {"Login", "ChangePassword"}
Refuses403 == {"UpdateProduct", "AddProductImages", "DeleteProductImage", "OffShelfProduct",
               "RelistProduct", "AcceptTrade", "RejectTrade", "CancelTrade",
               "CreateTradeReview"}
Refuses404 == {"GetUser", "GetProduct", "UpdateProduct", "AddProductImages",
               "DeleteProductImage", "OffShelfProduct", "RelistProduct",
               "CreateProductComment", "ListProductComments", "CreateTrade", "GetTrade",
               "AcceptTrade", "RejectTrade", "CancelTrade", "ConfirmTrade",
               "CreateTradeReview", "GetOrCreateConversation", "ListMessages", "SendMessage",
               "MarkConversationRead"}
Refuses409 == {"Register", "UpdateProduct", "AddProductImages", "DeleteProductImage",
               "OffShelfProduct", "RelistProduct", "CreateTrade", "AcceptTrade",
               "RejectTrade", "CancelTrade", "ConfirmTrade", "CreateTradeReview",
               "GetOrCreateConversation", "AddFavorite"}
Refuses413 == {"body", "form"}

(* Only the caller's own account is looked up before publishing.           *)
OwnAccount(ep, step) == ep = "createProduct" /\ step = "GetUser"

(* The endpoints that may answer 400, declared or not. *)
May400 == Declares400 \cup {"listUserProducts", "listProductComments", "acceptTrade",
                           "confirmTrade", "removeFavorite"}

May(ep, step) ==
  /\ step \in Refuses400 => ep \in May400
  /\ step \in Refuses401 => ep # "registerUser"
  /\ step \in Refuses403 => ep \in Declares403
  /\ step \in Refuses404 => ep \in Declares404 \/ OwnAccount(ep, step)
  /\ step \in Refuses409 => ep \in Declares409
  /\ step \in Refuses413 => ep \in FormBody \cup JSONBody

(* What an endpoint may answer, declared or not. *)
Result(ep) == Declared(ep) \cup UndeclaredStatus(ep)

(* Every refusal is declared.                                              *)
Answers(ep, p) == \A i \in 1..Len(p) : May(ep, p[i].do)

(* Steps are calls or checks, and some calls belong to one route.          *)
Named(ep, p) ==
  /\ Len(p) \in Nat
  /\ \A i \in 1..Len(p) :
       LET step == p[i].do IN
       /\ step \in Outer \cup Checks
       /\ step = "CreateProduct" => ep = "createProduct"
       /\ step = "CreateTrade" => ep = "createTrade"
       /\ step = "GetOrCreateConversation" => ep = "getOrCreateProductConversation"

(* Steps that refuse nothing, and calls that have made sure that the       *)
(* product is there.                                                       *)
Quiet == {"IsFavorited", "BatchGetUsers", "BatchGetUserContacts", "BatchGetProducts",
          "BatchGetUserAverageScores", "BatchGetProductTradeReviews", "GetUserStats",
          "conversation"}
Sure == {"CreateProduct", "UpdateProduct", "OffShelfProduct", "RelistProduct"}

(* What follows a change only completes the answer.                        *)
Settles(p) ==
  \A i \in 1..Len(p) : p[i].do \in Writing =>
    \A j \in i+1..Len(p) :
      p[j].do \in Quiet \/ (p[j].do = "GetUser" /\ p[i].do \in Sure)

(* Calls that name the trade, and calls that may find something.           *)
OnTrade == TradeRpc \ {"ListTrades"}
Finding == {"ListProducts", "ListUserProducts", "ListTrades", "ListProductComments",
            "ListFavorites", "ListConversations", "ListMessages"}

Before(p, i, step) == \E j \in 1..i-1 : p[j] = step

(* What a step relies on has been done before it.                          *)
Prepared(ep, p) ==
  \A i \in 1..Len(p) :
    LET step == p[i].do
        when == p[i].when
    IN
    /\ step \in Finding =>
         /\ \A j \in 1..i-1 : p[j].do # "BatchGetProducts"
         /\ ep = "listTrades" => step = "ListTrades"
         /\ ep = "listFavorites" => step = "ListFavorites"
         /\ ep = "listConversations" => step = "ListConversations"
    /\ step = "BatchGetUserContacts" =>
         \/ when = "always" /\ \E d \in OnTrade : Before(p, i, Do(d))
         \/ when = "items" /\ ep = "listTrades"
    /\ step = "AddFavorite" => Before(p, i, Do("GetProduct"))
    /\ step = "BatchGetProducts" =>
         \/ when = "items" /\ ep \in {"listFavorites", "listConversations"}
         \/ when = "always" /\ Before(p, i, Do("GetOrCreateConversation"))
    /\ step \in {"favorites", "conversation"} =>
         \/ /\ when = "items" /\ Before(p, i, If("items", "BatchGetProducts"))
            /\ ep \in {"listFavorites", "listConversations"}
            /\ step = "conversation" => ep = "listConversations"
         \/ /\ when = "always" /\ Before(p, i, Do("BatchGetProducts"))
            /\ step = "conversation" /\ ep = "getOrCreateProductConversation"

Sound(ep, p) == Named(ep, p) /\ Answers(ep, p) /\ Settles(p) /\ Prepared(ep, p)

LEMMA Routes ==
  /\ Plan["registerUser"] = RegisterUser
  /\ Plan["loginUser"] = LoginUser
  /\ Plan["logoutUser"] = LogoutUser
  /\ Plan["getCurrentUser"] = Me
  /\ Plan["updateCurrentUser"] = UpdateMe
  /\ Plan["getUserProfile"] = Profile
  /\ Plan["changeCurrentUserPassword"] = ChangeMyPassword
  /\ Plan["listProducts"] = List
  /\ Plan["listCurrentUserProducts"] = ListMine
  /\ Plan["listUserProducts"] = ListByUser
  /\ Plan["createProduct"] = Publish
  /\ Plan["getProduct"] = Get
  /\ Plan["updateProduct"] = Update
  /\ Plan["addProductImages"] = AddImages
  /\ Plan["deleteProductImage"] = DeleteImage
  /\ Plan["offShelfProduct"] = OffShelf
  /\ Plan["relistProduct"] = Relist
  /\ Plan["createProductComment"] = WriteComment
  /\ Plan["listProductComments"] = ListComments
  /\ Plan["createTrade"] = AskFor
  /\ Plan["listTrades"] = ListTrades
  /\ Plan["getTrade"] = ShowTrade
  /\ Plan["acceptTrade"] = AcceptTrade
  /\ Plan["rejectTrade"] = RejectTrade
  /\ Plan["cancelTrade"] = CancelTrade
  /\ Plan["confirmTrade"] = ConfirmTrade
  /\ Plan["createTradeReview"] = WriteReview
  /\ Plan["listFavorites"] = ListFavorites
  /\ Plan["addFavorite"] = Collect
  /\ Plan["removeFavorite"] = Discard
  /\ Plan["getOrCreateProductConversation"] = OpenConversation
  /\ Plan["listConversations"] = ListConversations
  /\ Plan["getConversationUnreadCount"] = UnreadCount
  /\ Plan["listConversationMessages"] = ListMessages
  /\ Plan["sendConversationMessage"] = SendMessage
  /\ Plan["markConversationRead"] = MarkRead
  BY DEF Plan

LEMMA AllEndpoints ==
  Endpoint = {"registerUser", "loginUser", "logoutUser", "getCurrentUser",
              "updateCurrentUser", "getUserProfile", "changeCurrentUserPassword",
              "listProducts", "listCurrentUserProducts", "listUserProducts",
              "createProduct", "getProduct", "updateProduct", "addProductImages",
              "deleteProductImage", "offShelfProduct", "relistProduct",
              "createProductComment", "listProductComments", "createTrade",
              "listTrades", "getTrade", "acceptTrade", "rejectTrade", "cancelTrade",
              "confirmTrade", "createTradeReview", "listFavorites", "addFavorite",
              "removeFavorite", "getOrCreateProductConversation",
              "listConversations", "getConversationUnreadCount",
              "listConversationMessages", "sendConversationMessage",
              "markConversationRead"}
  BY DEF Endpoint, AuthEndpoint, UserEndpoint, ProductEndpoint, TradeEndpoint,
         FavoriteEndpoint, MessagingEndpoint

(* Every route of the Gateway is sound: handler by handler.                *)
LEMMA RoutesSound == \A ep \in Endpoint : Sound(ep, Plan[ep])
  <1> USE DEF Do, If, All, Users, Scores, Stats, Favorited, Products, Contacts,
             Reviews, WithDetail, WithPage, WithMyPage, WithTrade, WithComment,
             WithConversation, Sound, Named, Answers, Settles, Prepared, Checks,
             May, Writing, Quiet, Sure, Before, OnTrade, Finding, Outer, Rpc,
             AccountRpc, MarketplaceRpc, ProductRpc, TradeRpc, ReviewRpc,
             CommentRpc, MessagingRpc, FavoriteRpc, OwnAccount, Refuses400,
             Refuses401, Refuses403, Refuses404, Refuses409, Refuses413, FormBody,
             JSONBody, OptionalBody, May400, Declares400, Declares403, Declares404,
             Declares409, ProductEndpoint, TradeEndpoint
  <1>1. Sound("registerUser", RegisterUser)  BY DEF RegisterUser
  <1>2. Sound("loginUser", LoginUser)  BY DEF LoginUser
  <1>3. Sound("logoutUser", LogoutUser)  BY DEF LogoutUser
  <1>4. Sound("getCurrentUser", Me)  BY DEF Me
  <1>5. Sound("updateCurrentUser", UpdateMe)  BY DEF UpdateMe
  <1>6. Sound("getUserProfile", Profile)  BY DEF Profile
  <1>7. Sound("changeCurrentUserPassword", ChangeMyPassword)  BY DEF ChangeMyPassword
  <1>8. Sound("listProducts", List)  BY DEF List
  <1>9. Sound("listCurrentUserProducts", ListMine)  BY DEF ListMine
  <1>10. Sound("listUserProducts", ListByUser)  BY DEF ListByUser
  <1>11. Sound("createProduct", Publish)  BY DEF Publish
  <1>12. Sound("getProduct", Get)  BY DEF Get
  <1>13. Sound("updateProduct", Update)  BY DEF Update
  <1>14. Sound("addProductImages", AddImages)  BY DEF AddImages
  <1>15. Sound("deleteProductImage", DeleteImage)  BY DEF DeleteImage
  <1>16. Sound("offShelfProduct", OffShelf)
    <2>1. Named("offShelfProduct", OffShelf)  BY SMTT(30) DEF OffShelf
    <2>2. Answers("offShelfProduct", OffShelf)  BY SMTT(30) DEF OffShelf
    <2>3. Settles(OffShelf)  BY SMTT(30) DEF OffShelf
    <2>4. Prepared("offShelfProduct", OffShelf)  BY SMTT(30) DEF OffShelf
    <2> QED  BY <2>1, <2>2, <2>3, <2>4, Zenon DEF Sound
  <1>17. Sound("relistProduct", Relist)
    <2>1. Named("relistProduct", Relist)  BY SMTT(30) DEF Relist
    <2>2. Answers("relistProduct", Relist)  BY SMTT(30) DEF Relist
    <2>3. Settles(Relist)  BY SMTT(30) DEF Relist
    <2>4. Prepared("relistProduct", Relist)  BY SMTT(30) DEF Relist
    <2> QED  BY <2>1, <2>2, <2>3, <2>4, Zenon DEF Sound
  <1>18. Sound("createProductComment", WriteComment)  BY DEF WriteComment
  <1>19. Sound("listProductComments", ListComments)  BY DEF ListComments
  <1>20. Sound("createTrade", AskFor)  BY DEF AskFor
  <1>21. Sound("listTrades", ListTrades)  BY DEF ListTrades
  <1>22. Sound("getTrade", ShowTrade)  BY DEF ShowTrade
  <1>23. Sound("acceptTrade", AcceptTrade)  BY DEF AcceptTrade
  <1>24. Sound("rejectTrade", RejectTrade)  BY DEF RejectTrade
  <1>25. Sound("cancelTrade", CancelTrade)  BY DEF CancelTrade
  <1>26. Sound("confirmTrade", ConfirmTrade)  BY DEF ConfirmTrade
  <1>27. Sound("createTradeReview", WriteReview)  BY DEF WriteReview
  <1>28. Sound("listFavorites", ListFavorites)  BY DEF ListFavorites
  <1>29. Sound("addFavorite", Collect)  BY DEF Collect
  <1>30. Sound("removeFavorite", Discard)  BY DEF Discard
  <1>31. Sound("getOrCreateProductConversation", OpenConversation)  BY DEF OpenConversation
  <1>32. Sound("listConversations", ListConversations)  BY DEF ListConversations
  <1>33. Sound("getConversationUnreadCount", UnreadCount)  BY DEF UnreadCount
  <1>34. Sound("listConversationMessages", ListMessages)  BY DEF ListMessages
  <1>35. Sound("sendConversationMessage", SendMessage)  BY DEF SendMessage
  <1>36. Sound("markConversationRead", MarkRead)  BY DEF MarkRead
  <1> HIDE DEF Sound
  <1> QED
    BY <1>1, <1>2, <1>3, <1>4, <1>5, <1>6, <1>7, <1>8, <1>9, <1>10, <1>11, <1>12,
       <1>13, <1>14, <1>15, <1>16, <1>17, <1>18, <1>19, <1>20, <1>21, <1>22, <1>23,
       <1>24, <1>25, <1>26, <1>27, <1>28, <1>29, <1>30, <1>31, <1>32, <1>33, <1>34,
       <1>35, <1>36, Routes, AllEndpoints

-----------------------------------------------------------------------------
(* Refusals, and what they are to the client.                              *)

Codes400 == {"VALIDATION_ERROR", "CONTACT_REQUIRED", "IMAGE_LIMIT_EXCEEDED"}
Codes409 == {"STUDENT_NO_EXISTS", "PRODUCT_NOT_AVAILABLE", "PRODUCT_STATE_CONFLICT",
             "TRADE_STATE_CONFLICT", "CONVERSATION_MISMATCH", "SELF_ACTION_NOT_ALLOWED",
             "TRADE_REVIEW_ALREADY_EXISTS"}

(* What no check looks for before a database, an object store or a message *)
(* cannot hold it.                                                         *)
Excused(r) == r.flaw \in Unnoticed \/ r.conv = "illegal"

(* A step refuses a request with a code. *)
Denies(step, r, code) ==
  \/ code \in Codes400 /\ step \in Refuses400
  \/ code = "UNAUTHORIZED" /\ step \in Refuses401
  \/ code = "FORBIDDEN" /\ step \in Refuses403
  \/ code = "RESOURCE_NOT_FOUND" /\ step \in Refuses404
  \/ code \in Codes409 /\ step \in Refuses409
  \/ code = "PAYLOAD_TOO_LARGE" /\ step \in Refuses413
  \/ code = "INTERNAL_ERROR" /\ Excused(r)

LEMMA StatusOfCode ==
  /\ \A code \in Codes400 : StatusFor(code) = 400
  /\ StatusFor("UNAUTHORIZED") = 401
  /\ StatusFor("FORBIDDEN") = 403
  /\ StatusFor("RESOURCE_NOT_FOUND") = 404
  /\ \A code \in Codes409 : StatusFor(code) = 409
  /\ StatusFor("PAYLOAD_TOO_LARGE") = 413
  /\ StatusFor("INTERNAL_ERROR") = 500
  BY DEF StatusFor, HttpStatus, Codes400, Codes409

(* An error of a service of this system arrives with its code. *)
LEMMA CodesArrive ==
  ASSUME NEW step, NEW r, NEW code, Denies(step, r, code)
  PROVE  CodeOf(Wire(code)) = code
  <1>1. code \in Code
    BY DEF Denies, Code, GrpcOf, Codes400, Codes409
  <1> QED
    BY <1>1 DEF CodeOf, Wire

LEMMA FailuresAreInternal ==
  ASSUME NEW err \in {Raw("DeadlineExceeded"), Raw("Unavailable"), Wire("INTERNAL_ERROR")}
  PROVE  StatusFor(CodeOf(err)) = 500
  <1>1. "INTERNAL_ERROR" \in Code /\ NoDetail \notin Code
    BY DEF Code, GrpcOf, NoDetail
  <1>2. CodeOf(err) = "INTERNAL_ERROR"
    BY <1>1 DEF CodeOf, Raw, Wire, FallbackCode
  <1> QED
    BY <1>2, StatusOfCode

LEMMA Results ==
  ASSUME NEW ep
  PROVE  /\ 500 \in Result(ep)
         /\ ep \in May400 => 400 \in Result(ep)
         /\ ep # "registerUser" => 401 \in Result(ep)
         /\ ep \in Declares403 => 403 \in Result(ep)
         /\ ep \in Declares404 => 404 \in Result(ep)
         /\ ep \in Declares409 => 409 \in Result(ep)
         /\ ep \in FormBody \cup JSONBody => 413 \in Result(ep)
  BY DEF Result, Declared, UndeclaredStatus, May400

LEMMA DenialsAreDeclared ==
  ASSUME NEW ep, NEW step, NEW r, NEW code, Denies(step, r, code), May(ep, step),
         ~OwnAccount(ep, step)
  PROVE  LET status == StatusFor(CodeOf(Wire(code))) IN
         /\ status \in Result(ep) /\ status \in Nat
         /\ step \in Quiet => status \notin 400..499
         /\ status = 500 => Excused(r)
  <1>1. StatusFor(CodeOf(Wire(code))) = StatusFor(code)
    BY CodesArrive
  <1>2. step \in Quiet => code = "INTERNAL_ERROR"
    BY DEF Denies, Quiet, Refuses400, Refuses401, Refuses403, Refuses404, Refuses409,
           Refuses413
  <1> QED
    BY <1>1, <1>2, StatusOfCode, Results DEF Denies, May

LEMMA ChecksDeny ==
  ASSUME NEW step \in Checks \ {"favorites", "conversation"}, NEW r, NEW seen,
         CheckRefusal(step, r, seen) # OK
  PROVE  Denies(step, r, CheckRefusal(step, r, seen))
  BY DEF Checks, CheckRefusal, BodyRefusal, FormRefusal, FilesRefusal, FieldsRefusal,
         QueryRefusal, KeyRefusal, IdRefusal, ContactRefusal, Wrong, OK, Denies,
         Codes400, Refuses400, Refuses413

LEMMA AccountDenies ==
  ASSUME NEW rpc \in AccountRpc, NEW r, AccountRefusal(rpc, r) # OK
  PROVE  Denies(rpc, r, AccountRefusal(rpc, r))
  BY DEF AccountRpc, AccountRefusal, RefuseRegister, RefuseLogin, RefuseGetUser,
         RefuseUpdateProfile, RefuseChangePassword, Invalid, Missing, UnfitId, UnfitText,
         Unnoticed, Excused, Wrong, ??, OK,
         Denies, Codes400, Codes409, Refuses400, Refuses401, Refuses404, Refuses409

LEMMA ProductsDeny ==
  ASSUME NEW rpc \in ProductRpc, NEW r, ProductRefusal(rpc, r) # OK
  PROVE  Denies(rpc, r, ProductRefusal(rpc, r))
  BY DEF ProductRpc, ProductRefusal, RefuseCreateProduct, RefuseGetProduct,
         RefuseUpdateProduct, RefuseAddImages, RefuseDeleteImage, RefuseOffShelf,
         RefuseRelist, RefuseListProducts, RefuseListUserProducts, NoProduct, UnfitId,
         UnfitText, PageOverflows, Unnoticed, Excused, OwnContent, Undecided,
         ContentRefusals, NotSeller, Invalid, Missing,
         Wrong, ??, OK, Denies, Codes400, Codes409, Refuses400, Refuses403, Refuses404,
         Refuses409

LEMMA CommentsDeny ==
  ASSUME NEW rpc \in CommentRpc, NEW r, CommentRefusal(rpc, r) # OK
  PROVE  Denies(rpc, r, CommentRefusal(rpc, r))
  BY DEF CommentRpc, CommentRefusal, RefuseComment, RefuseListComments, NoProduct,
         UnfitId, UnfitText, PageOverflows, Unnoticed, Excused, Invalid, Missing,
         Wrong, ??, OK, Denies, Codes400, Refuses400, Refuses404

LEMMA TradesDeny ==
  ASSUME NEW rpc \in TradeRpc, NEW r, TradeRefusal(rpc, r) # OK
  PROVE  Denies(rpc, r, TradeRefusal(rpc, r))
  BY DEF TradeRpc, TradeRefusal, RefuseCreateTrade, RefuseNewIntent, RefuseGetTrade,
         RefuseAccept, RefuseReject, RefuseCancel, RefuseConfirm, RefuseListTrades,
         NoProduct, NoTrade, UnfitId, UnfitText, PageOverflows, Unnoticed, Excused,
         NotSeller, Missing,
         Wrong, ??, OK, Denies, Codes409, Refuses403, Refuses404, Refuses409

LEMMA ReviewsDeny ==
  ASSUME NEW rpc \in ReviewRpc, NEW r, ReviewRefusal(rpc, r) # OK
  PROVE  Denies(rpc, r, ReviewRefusal(rpc, r))
  BY DEF ReviewRpc, ReviewRefusal, RefuseReview, NoTrade, UnfitId, UnfitText, Unnoticed,
         Excused, Missing, Wrong, ??, OK,
         Denies, Codes409, Refuses403, Refuses404, Refuses409

LEMMA MessagingDenies ==
  ASSUME NEW rpc \in MessagingRpc \ {"GetConversation"}, NEW r,
         MessagingRefusal(rpc, r) # OK
  PROVE  Denies(rpc, r, MessagingRefusal(rpc, r))
  BY DEF MessagingRpc, MessagingRefusal, RefuseOpen, RefuseListMessages,
         RefuseListConversations, NoConversation, UnfitText, PageOverflows, Unnoticed,
         Excused, RefuseSend, RefuseMarkRead, Invalid, Missing, Wrong, ??, OK,
         Denies, Codes400, Codes409, Refuses400, Refuses404, Refuses409

LEMMA FavoritesDeny ==
  ASSUME NEW rpc \in FavoriteRpc, NEW r, FavoriteRefusal(rpc, r) # OK
  PROVE  Denies(rpc, r, FavoriteRefusal(rpc, r))
  BY DEF FavoriteRpc, FavoriteRefusal, RefuseAddFavorite, RefuseRemoveFavorite,
         RefuseListFavorites, UnfitId, PageOverflows, Unnoticed, Excused, Invalid,
         Wrong, ??, OK, Denies, Codes400, Codes409, Refuses400, Refuses409
(* The calls of the services are different ones.                           *)
LEMMA WhoseCall ==
  /\ \A rpc \in AccountRpc :
       rpc \notin ProductRpc \cup CommentRpc \cup TradeRpc \cup ReviewRpc
                    \cup MessagingRpc \cup FavoriteRpc
  /\ \A rpc \in ProductRpc :
       rpc \notin CommentRpc \cup TradeRpc \cup ReviewRpc \cup MessagingRpc \cup FavoriteRpc
  /\ \A rpc \in CommentRpc :
       rpc \notin TradeRpc \cup ReviewRpc \cup MessagingRpc \cup FavoriteRpc
  /\ \A rpc \in TradeRpc : rpc \notin ReviewRpc \cup MessagingRpc \cup FavoriteRpc
  /\ \A rpc \in ReviewRpc : rpc \notin MessagingRpc \cup FavoriteRpc
  /\ \A rpc \in MessagingRpc : rpc \notin FavoriteRpc
  BY DEF AccountRpc, ProductRpc, CommentRpc, TradeRpc, ReviewRpc, MessagingRpc,
         FavoriteRpc

LEMMA CallsDeny ==
  ASSUME NEW rpc \in Outer, NEW r, Refusal(rpc, r) # OK
  PROVE  Denies(rpc, r, Refusal(rpc, r))
  <1>1. rpc \in AccountRpc \cup ProductRpc \cup CommentRpc \cup TradeRpc \cup ReviewRpc
                  \cup (MessagingRpc \ {"GetConversation"}) \cup FavoriteRpc
    BY DEF Outer, Rpc, MarketplaceRpc
  <1> QED
    BY <1>1, WhoseCall, AccountDenies, ProductsDeny, CommentsDeny, TradesDeny,
       ReviewsDeny, MessagingDenies, FavoritesDeny DEF Refusal

(* What a call asks of another service is refused as the call may be.      *)
LEMMA InnerCallsDeny ==
  ASSUME NEW rpc, NEW r, InnerCall(rpc, r) # NoCall, NEW code,
         code = InnerCode(Refusal(InnerCall(rpc, r), r)), code # OK
  PROVE  Denies(rpc, r, code)
  <1>1. \/ rpc = "CreateTrade" /\ InnerCall(rpc, r) = "GetConversation"
        \/ rpc = "GetOrCreateConversation" /\ InnerCall(rpc, r) = "GetProduct"
    BY DEF InnerCall, NoCall
  <1>2. \/ Refusal("GetConversation", r) \in {OK, "RESOURCE_NOT_FOUND"}
        \/ Excused(r)
    BY WhoseCall DEF Refusal, MessagingRefusal, RefuseGetConversation, Missing, Wrong,
       ??, OK, MessagingRpc, Excused
  <1>3. \/ Refusal("GetProduct", r) \in {OK, "RESOURCE_NOT_FOUND"}
        \/ Excused(r)
    BY WhoseCall DEF Refusal, ProductRefusal, RefuseGetProduct, NoProduct, UnfitId,
       Missing, Wrong, ??, OK, ProductRpc, Excused, Unnoticed
  <1>4. code = "RESOURCE_NOT_FOUND" \/ (code = "INTERNAL_ERROR" /\ Excused(r))
    BY <1>1, <1>2, <1>3 DEF InnerCode
  <1> QED
    BY <1>1, <1>4 DEF Denies, Refuses404

-----------------------------------------------------------------------------
(* What calls leave behind in the services.                                *)

(* A product or a trade that is there stays, and what one needs one finds. *)
Leaves(rpc, r, after) ==
  /\ after \in Database
  /\ db.product # "NONE" => after.product # "NONE"
  /\ db.trade # "NONE" => after.trade # "NONE"
  /\ after.favorites # {} => db.favorites # {} \/ rpc = "AddFavorite"
  /\ after.conversation => db.conversation \/ rpc = "GetOrCreateConversation"
  /\ rpc \in OnTrade => after.trade # "NONE"

LEMMA AccountLeaves ==
  ASSUME db \in Database, NEW r \in AnyRequest, NEW rpc \in AccountRpc
  PROVE  Leaves(rpc, r, AccountEffect(rpc, r))
  BY DEF AccountRpc, AccountEffect, AfterRegister, AfterUpdateProfile, Unchanged,
         Leaves, Database, AnyRequest, Actor, OnTrade, TradeRpc

LEMMA ProductLeaves ==
  ASSUME db \in Database, NEW r \in AnyRequest, NEW rpc \in ProductRpc,
         ProductRefusal(rpc, r) = OK
  PROVE  Leaves(rpc, r, ProductEffect(rpc))
  BY DEF ProductRpc, ProductEffect, AfterCreateProduct, AfterAddImages,
         AfterDeleteImage, AfterOffShelf, AfterRelist, Unchanged, Leaves, Database,
         MaxImages, OnTrade, TradeRpc, ProductRefusal, RefuseAddImages,
         RefuseDeleteImage, NoProduct, UnfitId, OwnContent, Undecided,
         ContentRefusals, NotSeller, Invalid,
         Missing, Wrong, ??, OK

LEMMA TradeLeaves ==
  ASSUME db \in Database, NEW r \in AnyRequest, NEW rpc \in TradeRpc,
         TradeRefusal(rpc, r) = OK, rpc = "CreateTrade" => r.actor \in Party
  PROVE  /\ Leaves(rpc, r, TradeEffect(rpc, r))
         /\ rpc \in OnTrade => r.actor \in Party
  <1>1. rpc \in OnTrade =>
          r.actor \in Party /\ (rpc = "CreateTrade" \/ db.trade # "NONE")
    BY DEF OnTrade, TradeRpc, TradeRefusal, RefuseGetTrade, RefuseAccept, RefuseReject,
           RefuseCancel, RefuseConfirm, NoTrade, UnfitId, Missing, Wrong, ??, OK
  <1> DEFINE after == TradeEffect(rpc, r)
  <1>2. CASE rpc = "CreateTrade"
    <2>1. after = AfterCreateTrade(r)
      BY <1>2 DEF TradeEffect
    <2>2. CASE Active
      BY <1>1, <1>2, <2>1, <2>2 DEF AfterCreateTrade, Active, Leaves, OnTrade, TradeRpc
    <2>3. CASE ~Active
      <3>1. after = [db EXCEPT !.trade = "PENDING", !.confirmed = {}, !.bound = (r.conv = "own")]
        BY <2>1, <2>3 DEF AfterCreateTrade
      <3>2. (r.conv = "own") \in BOOLEAN
        OBVIOUS
      <3>3. after \in Database
        BY <3>1, <3>2 DEF Database
      <3> QED
        BY <1>1, <1>2, <3>1, <3>3 DEF Leaves, Database
    <2> QED
      BY <2>2, <2>3
  <1>3. CASE rpc \in {"AcceptTrade", "RejectTrade"}
    BY <1>1, <1>3 DEF TradeEffect, AfterAccept, AfterReject, Leaves, Database, OnTrade,
       TradeRpc
  <1>4. CASE rpc = "CancelTrade"
    BY <1>1, <1>4 DEF TradeEffect, AfterCancel, Leaves, Database, OnTrade, TradeRpc
  <1>5. CASE rpc = "ConfirmTrade"
    BY <1>1, <1>5 DEF TradeEffect, AfterConfirm, Leaves, Database, OnTrade, TradeRpc,
       Party
  <1>6. CASE rpc \in {"GetTrade", "ListTrades"}
    BY <1>1, <1>6 DEF TradeEffect, Unchanged, Leaves, OnTrade, TradeRpc
  <1> QED
    BY <1>1, <1>2, <1>3, <1>4, <1>5, <1>6 DEF TradeRpc

LEMMA OtherLeaves ==
  ASSUME db \in Database, NEW r \in AnyRequest
  PROVE  /\ Leaves("CreateProductComment", r, AfterComment)
         /\ Leaves("CreateTradeReview", r, AfterReview)
         /\ \A rpc \in MessagingRpc :
              MessagingRefusal(rpc, r) = OK => Leaves(rpc, r, MessagingEffect(rpc, r))
         /\ \A rpc \in FavoriteRpc : Leaves(rpc, r, FavoriteEffect(rpc, r))
         /\ \A rpc \in CommentRpc \cup ReviewRpc : Leaves(rpc, r, Unchanged)
  <1> USE DEF Leaves, OnTrade, TradeRpc, Unchanged, AnyRequest
  <1>1. Leaves("CreateProductComment", r, AfterComment)
    BY DEF AfterComment, Database
  <1>2. Leaves("CreateTradeReview", r, AfterReview)
    BY DEF AfterReview, Database
  <1>3. ASSUME NEW rpc \in MessagingRpc, MessagingRefusal(rpc, r) = OK
        PROVE  Leaves(rpc, r, MessagingEffect(rpc, r))
    BY <1>3 DEF MessagingEffect, MessagingRefusal, MessagingRpc, RefuseSend,
       NoConversation, Outside, Missing, Wrong, ??, OK, AfterOpen, AfterSend, Database, Actor
  <1>4. ASSUME NEW rpc \in FavoriteRpc
        PROVE  Leaves(rpc, r, FavoriteEffect(rpc, r))
    BY DEF FavoriteEffect, FavoriteRpc, AfterAddFavorite, AfterRemoveFavorite, Database,
           Actor
  <1>5. ASSUME NEW rpc \in CommentRpc \cup ReviewRpc
        PROVE  Leaves(rpc, r, Unchanged)
    BY DEF CommentRpc, ReviewRpc
  <1> QED
    BY <1>1, <1>2, <1>3, <1>4, <1>5

LEMMA EffectsLeave ==
  ASSUME db \in Database, NEW r \in AnyRequest, NEW rpc \in Outer, Refusal(rpc, r) = OK,
         rpc = "CreateTrade" => r.actor \in Party
  PROVE  /\ Leaves(rpc, r, Effect(rpc, r))
         /\ rpc \in OnTrade => r.actor \in Party
  <1>1. rpc \in AccountRpc \cup ProductRpc \cup CommentRpc \cup TradeRpc \cup ReviewRpc
                  \cup MessagingRpc \cup FavoriteRpc
    BY DEF Outer, Rpc, MarketplaceRpc
  <1>2. "CreateProductComment" \in CommentRpc /\ "CreateTradeReview" \in ReviewRpc
    BY DEF CommentRpc, ReviewRpc
  <1>3. CASE rpc \in AccountRpc
    <2>1. Effect(rpc, r) = AccountEffect(rpc, r)
      BY <1>2, <1>3, WhoseCall DEF Effect
    <2> QED
      BY <1>3, <2>1, WhoseCall, AccountLeaves DEF OnTrade
  <1>4. CASE rpc \in ProductRpc
    <2>1. Effect(rpc, r) = ProductEffect(rpc) /\ Refusal(rpc, r) = ProductRefusal(rpc, r)
      BY <1>2, <1>4, WhoseCall DEF Effect, Refusal
    <2> QED
      BY <1>4, <2>1, WhoseCall, ProductLeaves DEF OnTrade
  <1>5. CASE rpc \in CommentRpc \cup ReviewRpc
    BY <1>5, WhoseCall, OtherLeaves DEF Effect, OnTrade, CommentRpc, ReviewRpc
  <1>6. CASE rpc \in TradeRpc
    <2>1. Effect(rpc, r) = TradeEffect(rpc, r) /\ Refusal(rpc, r) = TradeRefusal(rpc, r)
      BY <1>2, <1>6, WhoseCall DEF Effect, Refusal
    <2> QED
      BY <1>6, <2>1, TradeLeaves
  <1>7. CASE rpc \in MessagingRpc \cup FavoriteRpc
    BY <1>2, <1>7, WhoseCall, OtherLeaves DEF Effect, Refusal, OnTrade
  <1> QED
    BY <1>1, <1>3, <1>4, <1>5, <1>6, <1>7
-----------------------------------------------------------------------------
(* The invariant.                                                          *)

Fact == {"sold", "contact", "items", "products", "review", "created"}
Working == [pc : {"step", "run", "inner", "back"}, req : Request, i : Nat,
            seen : SUBSET Fact, wrote : BOOLEAN]
Answered == [pc : {"done"}, req : Request, status : Nat, wrote : BOOLEAN, fault : BOOLEAN]

Route(w) == Plan[w.req.ep]
Passed(w, step) == Before(Route(w), w.i, step)

ProductKnown == db.product # "NONE"
TradeKnown(r) == r.actor \in Party /\ db.trade # "NONE"

Types ==
  /\ db \in Database
  /\ slot \in [Slot -> {Idle} \cup Working \cup Answered]
  /\ \A o \in orphans : o.slot \in Slot /\ o.rpc \in Outer

(* What refers to the product has found it there.                          *)
ReferencesHold == db.favorites # {} \/ db.conversation => ProductKnown

(* A call is made at a step that calls.                                    *)
At(w) ==
  /\ w.i \in 1..Len(Route(w)) + 1
  /\ w.pc # "step" =>
       LET step == Route(w)[w.i] IN
       /\ w.i <= Len(Route(w)) /\ step.do \in Outer
       /\ step.when = "always" \/ step.when \in w.seen
       /\ w.pc \in {"inner", "back"} => InnerCall(step.do, w.req) # NoCall
       /\ w.pc = "back" /\ step.do = "GetOrCreateConversation" => ProductKnown

(* What the calls it has made, and the facts it has learned, tell a        *)
(* request about the services as they are now.                             *)
Knows(w) ==
  LET ep == w.req.ep IN
  /\ Passed(w, Do("GetProduct")) \/ Passed(w, Do("GetOrCreateConversation")) => ProductKnown
  /\ (\E rpc \in OnTrade : Passed(w, Do(rpc))) => TradeKnown(w.req)
  /\ "items" \in w.seen =>
       /\ ep = "listTrades" => TradeKnown(w.req)
       /\ ep \in {"listFavorites", "listConversations"} => ProductKnown
       /\ ep = "listConversations" => w.req.actor \in Party
       /\ Passed(w, If("items", "BatchGetProducts")) => "products" \in w.seen
  /\ Passed(w, Do("BatchGetProducts")) => "products" \in w.seen
  /\ "created" \in w.seen => ep = "createTrade"

(* Who has changed something will not be refused any more.                 *)
Unfound == {"missing", "unfitId"}   \* flaws of an account that nobody has
Harmless(step, r) == step \in Quiet \/ (step = "GetUser" /\ r.flaw \notin Unfound)
Settled(w) == w.wrote => \A j \in w.i..Len(Route(w)) : Harmless(Route(w)[j].do, w.req)

AnswerOK(w) ==
  /\ w.status \in Result(w.req.ep)
  /\ w.wrote => w.status \notin 400..499
  /\ w.status = 500 => w.fault \/ Excused(w.req)

(* A call was left behind by a request that failed, and what it is about   *)
(* to commit is still right.                                               *)
OrphanOK(o) ==
  /\ \E w \in Answered :
       /\ slot[o.slot] = w /\ w.status = 500
       /\ o.rpc = "CreateTrade" => w.req.ep = "createTrade"
  /\ o.late /\ o.rpc \in {"AddFavorite", "GetOrCreateConversation"} => ProductKnown

WorkInv == \A s \in Slot, w \in Working : slot[s] = w => At(w) /\ Knows(w) /\ Settled(w)
AnswersInv == \A s \in Slot, w \in Answered : slot[s] = w => AnswerOK(w)
OrphansInv == \A o \in orphans : OrphanOK(o)

IInv == Types /\ ReferencesHold /\ WorkInv /\ AnswersInv /\ OrphansInv

LEMMA Shapes ==
  /\ \A w \in Working : w.pc # "done" /\ w.pc # "idle" /\ w \notin Answered /\ w # Idle
  /\ \A w \in Answered : w.pc = "done" /\ w # Idle
  /\ Idle.pc = "idle"
  BY DEF Working, Answered, Idle

LEMMA RouteFacts ==
  ASSUME NEW w \in Working
  PROVE  /\ w.req \in AnyRequest /\ w.req.ep \in Endpoint
         /\ Named(w.req.ep, Route(w)) /\ Answers(w.req.ep, Route(w))
         /\ Settles(Route(w)) /\ Prepared(w.req.ep, Route(w))
         /\ Len(Route(w)) \in Nat
         /\ w.req.ep \in {"createTrade", "getOrCreateProductConversation"} =>
              w.req.actor \in Party
         /\ w.req.ep = "createProduct" => w.req.flaw \notin Unfound
  <1>1. w.req \in Request
    BY DEF Working
  <1>2. w.req \in AnyRequest /\ w.req.ep \in Endpoint
    BY <1>1, RequestAssumption DEF AnyRequest
  <1>3. /\ w.req.ep \in {"createTrade", "getOrCreateProductConversation"} =>
             w.req.actor \in Party
        /\ w.req.ep = "createProduct" => w.req.flaw \notin Unfound
    BY <1>1, RequestAssumption DEF Unfound
  <1>4. /\ Named(w.req.ep, Route(w)) /\ Answers(w.req.ep, Route(w))
        /\ Settles(Route(w)) /\ Prepared(w.req.ep, Route(w))
    BY <1>2, RoutesSound DEF Sound, Route
  <1> QED
    BY <1>2, <1>3, <1>4 DEF Named

(* A request that only changes its own place.                              *)
LEMMA OneSlotMoves ==
  ASSUME IInv, NEW s \in Slot, slot[s] \notin Answered,
         NEW w \in Working \cup Answered, slot' = [slot EXCEPT ![s] = w],
         UNCHANGED <<db, orphans>>,
         w \in Working => At(w) /\ Knows(w) /\ Settled(w),
         w \in Answered => AnswerOK(w)
  PROVE  IInv'
  <1>1. Types'
    BY DEF IInv, Types
  <1>2. \A t \in Slot : slot'[t] = slot[t] \/ (t = s /\ slot'[t] = w)
    BY DEF IInv, Types
  <1>3. WorkInv'
    <2> SUFFICES ASSUME NEW t \in Slot, NEW v \in Working, slot'[t] = v
                 PROVE  (At(v) /\ Knows(v) /\ Settled(v))'
      BY DEF WorkInv
    <2>1. At(v) /\ Knows(v) /\ Settled(v)
      BY <1>2 DEF IInv, WorkInv
    <2> QED
      BY <2>1 DEF At, Knows, Settled, ProductKnown, TradeKnown
  <1>4. AnswersInv'
    <2> SUFFICES ASSUME NEW t \in Slot, NEW v \in Answered, slot'[t] = v
                 PROVE  AnswerOK(v)
      BY DEF AnswersInv, AnswerOK
    <2> QED
      BY <1>2 DEF IInv, AnswersInv
  <1>5. OrphansInv'
    <2> SUFFICES ASSUME NEW o \in orphans
                 PROVE  OrphanOK(o)'
      BY DEF OrphansInv
    <2>1. OrphanOK(o) /\ o.slot \in Slot
      BY DEF IInv, OrphansInv, Types
    <2>2. slot'[o.slot] = slot[o.slot]
      BY <1>2, <2>1 DEF OrphanOK
    <2> QED
      BY <2>1, <2>2 DEF OrphanOK, ProductKnown
  <1>6. ReferencesHold'
    BY DEF IInv, ReferencesHold, ProductKnown
  <1> QED
    BY <1>1, <1>3, <1>4, <1>5, <1>6 DEF IInv

(* A request is answered as AnswerOK asks for, and nothing else happens.   *)
Ends(s, w, status, fault) ==
  /\ slot[s] = w
  /\ status \in Result(w.req.ep)
  /\ w.wrote => status \notin 400..499
  /\ status = 500 => fault \/ Excused(w.req)
  /\ Finished(s, status, fault)
  /\ UNCHANGED <<db, orphans>>

LEMMA AnswerEnds ==
  ASSUME IInv, NEW s \in Slot, NEW w \in Working, NEW status \in Nat,
         NEW fault \in BOOLEAN, Ends(s, w, status, fault)
  PROVE  IInv'
  <1> DEFINE a == [pc |-> "done", req |-> w.req, status |-> status, wrote |-> w.wrote,
                   fault |-> fault]
  <1>1. slot' = [slot EXCEPT ![s] = a]
    BY DEF Ends, Finished
  <1>2. a \in Answered /\ AnswerOK(a)
    BY DEF Ends, Answered, Working, AnswerOK
  <1>3. a \notin Working /\ slot[s] \notin Answered
    BY <1>2, Shapes DEF Ends
  <1> HIDE DEF a
  <1> QED
    BY <1>1, <1>2, <1>3, OneSlotMoves DEF Ends

LEMMA DenialEnds ==
  ASSUME IInv, NEW s \in Slot, NEW w \in Working, slot[s] = w, w.i <= Len(Route(w)),
         NEW step, step = Route(w)[w.i].do, NEW code, Denies(step, w.req, code),
         step = "GetUser" => w.req.flaw \in Unfound,
         Fails(s, Wire(code)), UNCHANGED <<db, orphans>>
  PROVE  IInv'
  <1> DEFINE status == StatusFor(CodeOf(Wire(code)))
  <1>1. w.i \in 1..Len(Route(w)) /\ (w.wrote => Harmless(step, w.req))
    BY RouteFacts DEF IInv, WorkInv, At, Settled
  <1>2. May(w.req.ep, step) /\ ~OwnAccount(w.req.ep, step)
    BY <1>1, RouteFacts DEF Answers, OwnAccount
  <1>3. /\ status \in Result(w.req.ep) /\ status \in Nat
        /\ step \in Quiet => status \notin 400..499
        /\ status = 500 => Excused(w.req)
    BY <1>2, DenialsAreDeclared
  <1>4. w.wrote => status \notin 400..499
    BY <1>1, <1>3 DEF Harmless
  <1>5. Finished(s, status, FALSE)
    BY DEF Fails
  <1> HIDE DEF status
  <1>6. PICK st \in Nat, fault \in BOOLEAN : st = status /\ fault = FALSE
    BY <1>3
  <1>7. Ends(s, w, st, fault)
    BY <1>3, <1>4, <1>5, <1>6 DEF Ends
  <1> QED
    BY <1>7, AnswerEnds
-----------------------------------------------------------------------------
(* Steps that leave the services alone.                                    *)

LEMMA BeginKeepsInvariant ==
  ASSUME IInv, NEW s \in Slot, NEW r \in Request, Begin(s, r)
  PROVE  IInv'
  <1> DEFINE w == [pc |-> "step", req |-> r, i |-> 1, seen |-> {}, wrote |-> FALSE]
  <1>1. w \in Working
    BY DEF Working
  <1>2. Len(Route(w)) \in Nat
    BY <1>1, RouteFacts
  <1>3. w.i = 1 /\ w.pc = "step" /\ w.seen = {} /\ ~w.wrote
    OBVIOUS
  <1>4. \A step : ~Passed(w, step)
    BY DEF Passed, Before
  <1>5. At(w) /\ Knows(w) /\ Settled(w)
    <2> HIDE DEF w
    <2> QED
      BY <1>2, <1>4, <1>3 DEF At, Knows, Settled
  <1>6. slot[s] \notin Answered /\ w \notin Answered
    BY <1>1, Shapes DEF Begin
  <1>7. slot' = [slot EXCEPT ![s] = w] /\ UNCHANGED <<db, orphans>>
    BY DEF Begin
  <1> HIDE DEF w
  <1> QED
    BY <1>1, <1>5, <1>6, <1>7, OneSlotMoves

(* A step that calls nothing brings no knowledge, and none is asked for.   *)
LEMMA StepIsPassed ==
  ASSUME IInv, NEW s \in Slot, NEW w \in Working, slot[s] = w, w.pc = "step",
         w.i <= Len(Route(w)), NEW step, step = Route(w)[w.i],
         step.do \notin Rpc \/ (step.when # "always" /\ step.when \notin w.seen),
         slot' = [slot EXCEPT ![s].i = @ + 1], UNCHANGED <<db, orphans>>
  PROVE  IInv'
  <1> DEFINE v == [w EXCEPT !.i = @ + 1]
  <1>1. v \in Working /\ slot' = [slot EXCEPT ![s] = v]
    BY DEF Working, IInv, Types
  <1>2. At(w) /\ Knows(w) /\ Settled(w)
    BY DEF IInv, WorkInv
  <1>3. /\ v.i = w.i + 1 /\ v.pc = "step" /\ v.req = w.req /\ v.seen = w.seen
        /\ v.wrote = w.wrote /\ Route(v) = Route(w) /\ w.i \in 1..Len(Route(w))
        /\ Len(Route(w)) \in Nat
    BY <1>2, RouteFacts DEF Working, Route, At
  <1> HIDE DEF v
  <1>4. \A st : Passed(v, st) => Passed(w, st) \/ st = step
    BY <1>3 DEF Passed, Before
  <1>5. /\ \A rpc \in Rpc : step # Do(rpc)
        /\ "items" \in w.seen => step # If("items", "BatchGetProducts")
    BY DEF Do, If, Rpc, MarketplaceRpc, ProductRpc
  <1>6. Knows(v)
    <2>1. \A rpc \in Rpc : Passed(v, Do(rpc)) => Passed(w, Do(rpc))
      BY <1>4, <1>5
    <2>2. OnTrade \cup {"GetProduct", "GetOrCreateConversation", "BatchGetProducts"} \subseteq Rpc
      BY DEF OnTrade, Rpc, MarketplaceRpc, ProductRpc, TradeRpc, MessagingRpc
    <2> QED
      BY <1>2, <1>3, <1>4, <1>5, <2>1, <2>2 DEF Knows
  <1>7. At(v) /\ Settled(v)
    BY <1>2, <1>3 DEF At, Settled
  <1> QED
    BY <1>1, <1>6, <1>7, Shapes, OneSlotMoves

LEMMA AtWork ==
  ASSUME IInv, NEW s \in Slot, slot[s].pc \in {"step", "run", "inner", "back"}
  PROVE  /\ slot[s] \in Working /\ At(slot[s]) /\ Knows(slot[s]) /\ Settled(slot[s])
         /\ StepOf(s) = Route(slot[s])[slot[s].i]
         /\ Left(s) <=> slot[s].i <= Len(Route(slot[s]))
  BY Shapes DEF IInv, Types, WorkInv, StepOf, Left, Route

LEMMA SkipKeepsInvariant ==
  ASSUME IInv, NEW s \in Slot, Skip(s)
  PROVE  IInv'
  <1>1. PICK w \in Working : slot[s] = w
    BY AtWork DEF Skip
  <1>2. /\ w.pc = "step" /\ w.i <= Len(Route(w))
        /\ Route(w)[w.i].when # "always" /\ Route(w)[w.i].when \notin w.seen
        /\ slot' = [slot EXCEPT ![s].i = @ + 1] /\ UNCHANGED <<db, orphans>>
    BY <1>1, AtWork DEF Skip, Skipped
  <1> QED
    BY <1>1, <1>2, StepIsPassed

(* What the aggregator needs a product or a side of a conversation for has *)
(* been read before, from services that never take these away.             *)
LEMMA LookUpsFind ==
  ASSUME IInv, NEW s \in Slot, NEW w \in Working, slot[s] = w, w.i <= Len(Route(w)),
         NEW step, step = Route(w)[w.i], step.do \in {"favorites", "conversation"},
         step.when = "always" \/ step.when \in w.seen
  PROVE  CheckRefusal(step.do, w.req, w.seen) = OK
  <1>1. w.i \in 1..Len(Route(w)) /\ Knows(w)
    BY RouteFacts DEF IInv, WorkInv, At
  <1>2. \/ /\ step.when = "items" /\ Passed(w, If("items", "BatchGetProducts"))
           /\ w.req.ep \in {"listFavorites", "listConversations"}
           /\ step.do = "conversation" => w.req.ep = "listConversations"
        \/ /\ Passed(w, Do("BatchGetProducts"))
           /\ step.do = "conversation" /\ w.req.ep = "getOrCreateProductConversation"
    BY <1>1, RouteFacts DEF Prepared, Passed
  <1>3. /\ "products" \in w.seen
        /\ step.do = "conversation" => w.req.actor \in Party
    BY <1>1, <1>2, RouteFacts DEF Knows
  <1> QED
    BY <1>3 DEF CheckRefusal, FavoriteRefused, ConversationRefused, Wrong, OK

LEMMA CheckKeepsInvariant ==
  ASSUME IInv, NEW s \in Slot, Check(s)
  PROVE  IInv'
  <1>1. PICK w \in Working : slot[s] = w
    BY AtWork DEF Check
  <1> DEFINE step == Route(w)[w.i]
             code == CheckRefusal(step.do, w.req, w.seen)
  <1>2. /\ w.pc = "step" /\ w.i <= Len(Route(w)) /\ step.do \notin Rpc
        /\ Current(s) = step.do /\ UNCHANGED <<db, orphans>>
    BY <1>1, AtWork DEF Check, Current
  <1>3. IF code = OK THEN slot' = [slot EXCEPT ![s].i = @ + 1] ELSE Fails(s, Wire(code))
    BY <1>1, <1>2 DEF Check
  <1>4. step.do \in Checks
    <2>1. w.i \in 1..Len(Route(w))
      BY <1>1, <1>2, RouteFacts DEF IInv, WorkInv, At
    <2> QED
      BY <1>2, <2>1, RouteFacts DEF Named, Outer
  <1>5. step.do # "GetUser"
    BY <1>4 DEF Checks
  <1>6. CASE code = OK
    <2> HIDE DEF step
    <2> QED
      BY <1>1, <1>2, <1>3, <1>6, StepIsPassed DEF step
  <1>7. CASE code # OK
    <2>1. step.when = "always" \/ step.when \in w.seen
      BY <1>1, AtWork DEF Check, Skipped
    <2>2. step.do \notin {"favorites", "conversation"}
      <3> HIDE DEF step
      <3> QED
        BY <1>1, <1>2, <1>7, <2>1, LookUpsFind DEF step
    <2>3. Denies(step.do, w.req, code)
      BY <1>4, <1>7, <2>2, ChecksDeny
    <2> HIDE DEF code
    <2> QED
      BY <1>1, <1>2, <1>3, <1>5, <1>7, <2>3, DenialEnds
  <1> QED
    BY <1>6, <1>7

(* A request that no message can hold ends without a fault.               *)
LEMMA UnsentKeepsInvariant ==
  ASSUME IInv, NEW s \in Slot, Unsent(s)
  PROVE  IInv'
  <1>1. PICK w \in Working : slot[s] = w
    BY AtWork DEF Unsent, Calling
  <1>2. Excused(w.req)
    BY <1>1 DEF Unsent, Sendable, Excused, Unnoticed
  <1>3. StatusFor(CodeOf(Raw("Internal"))) = 500
    <2>1. NoDetail \notin Code
      BY DEF NoDetail, Code, GrpcOf
    <2> QED
      BY <2>1, StatusOfCode DEF CodeOf, Raw, FallbackCode
  <1>4. Finished(s, 500, FALSE) /\ UNCHANGED <<db, orphans>>
    BY <1>3 DEF Unsent, Fails
  <1>5. 500 \in Result(w.req.ep)
    BY Results
  <1>6. PICK status \in Nat : status = 500
    BY SMT
  <1>7. PICK fault \in BOOLEAN : fault = FALSE
    BY Zenon
  <1>8. status \notin 400..499
    BY <1>6
  <1>9. /\ Finished(s, status, fault) /\ UNCHANGED <<db, orphans>>
        /\ status \in Result(w.req.ep)
    BY <1>4, <1>5, <1>6, <1>7
  <1>10. Ends(s, w, status, fault)
    BY <1>1, <1>2, <1>7, <1>8, <1>9 DEF Ends
  <1> QED
    BY <1>10, AnswerEnds

(* A call waits for a connection, or for the call it makes itself. *)
LEMMA ConnectKeepsInvariant ==
  ASSUME IInv, NEW s \in Slot, Connect(s)
  PROVE  IInv'
  <1>1. PICK w \in Working : slot[s] = w
    BY AtWork DEF Connect, Calling
  <1> DEFINE v == [w EXCEPT !.pc = "run"]
  <1>2. v \in Working /\ slot' = [slot EXCEPT ![s] = v] /\ UNCHANGED <<db, orphans>>
    BY <1>1 DEF Working, Connect, IInv, Types
  <1>3. At(w) /\ Knows(w) /\ Settled(w)
    BY <1>1 DEF IInv, WorkInv
  <1>4. /\ v.i = w.i /\ v.pc = "run" /\ v.req = w.req /\ v.seen = w.seen /\ v.wrote = w.wrote
        /\ Route(v) = Route(w)
    BY DEF Working, Route
  <1> HIDE DEF v
  <1>5. /\ w.i <= Len(Route(w)) /\ Route(w)[w.i].do \in Rpc
        /\ Route(w)[w.i].when = "always" \/ Route(w)[w.i].when \in w.seen
    BY <1>1, AtWork DEF Connect, Calling, Current, Skipped
  <1>6. Route(w)[w.i].do \in Outer
    <2>1. w.i \in 1..Len(Route(w))
      BY <1>3, <1>5, RouteFacts DEF At
    <2>2. \A rpc \in Rpc : rpc \notin Checks
      BY DEF Rpc, Checks, AccountRpc, MarketplaceRpc, ProductRpc, TradeRpc, ReviewRpc,
             CommentRpc, MessagingRpc, FavoriteRpc
    <2> QED
      BY <1>5, <2>1, <2>2, RouteFacts DEF Named
  <1>7. At(v) /\ Knows(v) /\ Settled(v)
    BY <1>3, <1>4, <1>5, <1>6 DEF At, Knows, Settled, Passed
  <1> QED
    BY <1>1, <1>2, <1>7, Shapes, OneSlotMoves

LEMMA CallInnerKeepsInvariant ==
  ASSUME IInv, NEW s \in Slot, CallInner(s)
  PROVE  IInv'
  <1>1. PICK w \in Working : slot[s] = w
    BY AtWork DEF CallInner
  <1> DEFINE v == [w EXCEPT !.pc = "inner"]
  <1>2. v \in Working /\ slot' = [slot EXCEPT ![s] = v] /\ UNCHANGED <<db, orphans>>
    BY <1>1 DEF Working, CallInner, IInv, Types
  <1>3. At(w) /\ Knows(w) /\ Settled(w)
    BY <1>1 DEF IInv, WorkInv
  <1>4. /\ v.i = w.i /\ v.pc = "inner" /\ v.req = w.req /\ v.seen = w.seen /\ v.wrote = w.wrote
        /\ Route(v) = Route(w)
    BY DEF Working, Route
  <1> HIDE DEF v
  <1>5. w.pc = "run" /\ InnerCall(Route(w)[w.i].do, w.req) # NoCall
    BY <1>1, AtWork DEF CallInner, Current
  <1>6. At(v) /\ Knows(v) /\ Settled(v)
    BY <1>3, <1>4, <1>5 DEF At, Knows, Settled, Passed
  <1> QED
    BY <1>1, <1>2, <1>6, Shapes, OneSlotMoves

LEMMA InnerAnswerKeepsInvariant ==
  ASSUME IInv, NEW s \in Slot, InnerAnswer(s)
  PROVE  IInv'
  <1>1. PICK w \in Working : slot[s] = w
    BY AtWork DEF InnerAnswer
  <1> DEFINE rpc == Route(w)[w.i].do
             code == InnerCode(Refusal(InnerCall(rpc, w.req), w.req))
  <1>2. /\ w.pc = "inner" /\ UNCHANGED <<db, orphans>>
        /\ IF code = OK THEN slot' = [slot EXCEPT ![s].pc = "back"] ELSE Fails(s, Wire(code))
    BY <1>1, AtWork DEF InnerAnswer, Current
  <1>3. At(w) /\ Knows(w) /\ Settled(w)
    BY <1>1 DEF IInv, WorkInv
  <1>4. w.i <= Len(Route(w)) /\ InnerCall(rpc, w.req) # NoCall
    BY <1>2, <1>3 DEF At
  <1>5. CASE code # OK
    <2>1. Denies(rpc, w.req, code)
      BY <1>4, <1>5, InnerCallsDeny
    <2>2. rpc # "GetUser"
      BY <1>4 DEF InnerCall
    <2> HIDE DEF code, rpc
    <2> QED
      BY <1>1, <1>2, <1>4, <1>5, <2>1, <2>2, DenialEnds DEF rpc
  <1>6. CASE code = OK
    <2> DEFINE v == [w EXCEPT !.pc = "back"]
    <2>1. v \in Working /\ slot' = [slot EXCEPT ![s] = v]
      BY <1>1, <1>2, <1>6 DEF Working, IInv, Types
    <2>2. /\ v.i = w.i /\ v.pc = "back" /\ v.req = w.req /\ v.seen = w.seen
          /\ v.wrote = w.wrote /\ Route(v) = Route(w)
      BY DEF Working, Route
    <2> HIDE DEF v
    <2>3. rpc = "GetOrCreateConversation" => ProductKnown
      <3> SUFFICES ASSUME rpc = "GetOrCreateConversation" PROVE ProductKnown
        OBVIOUS
      <3>1. InnerCall(rpc, w.req) = "GetProduct"
        BY DEF InnerCall
      <3>2. Refusal("GetProduct", w.req) = RefuseGetProduct(w.req)
        BY WhoseCall DEF Refusal, ProductRefusal, ProductRpc
      <3> QED
        BY <1>6, <3>1, <3>2 DEF InnerCode, RefuseGetProduct, NoProduct, UnfitId, Missing,
           Wrong, ??, OK, ProductKnown
    <2>4. At(v) /\ Knows(v) /\ Settled(v)
      BY <1>2, <1>3, <1>4, <2>2, <2>3 DEF At, Knows, Settled, Passed
    <2> QED
      BY <1>1, <1>2, <2>1, <2>4, Shapes, OneSlotMoves
  <1> QED
    BY <1>5, <1>6

LEMMA RespondKeepsInvariant ==
  ASSUME IInv, NEW s \in Slot, Respond(s)
  PROVE  IInv'
  <1>1. PICK w \in Working : slot[s] = w
    BY AtWork DEF Respond
  <1> DEFINE status == Success(w.req, w.seen)
  <1>2. Finished(s, status, FALSE) /\ UNCHANGED <<db, orphans>>
    BY <1>1 DEF Respond
  <1>3. status \in {200, 201}
    BY DEF Success
  <1>4. "created" \in w.seen => w.req.ep = "createTrade"
    BY <1>1 DEF IInv, WorkInv, Knows
  <1>5. status \in DeclaredSuccess(w.req.ep)
    BY <1>4 DEF Success, Created, DeclaredSuccess
  <1>6. /\ status \in Result(w.req.ep) /\ status \in Nat
        /\ status \notin 400..499 /\ status # 500
    BY <1>3, <1>5 DEF Result, Declared
  <1> HIDE DEF status
  <1>7. PICK st \in Nat, fault \in BOOLEAN : st = status /\ fault = FALSE
    BY <1>6
  <1>8. Ends(s, w, st, fault)
    BY <1>1, <1>2, <1>6, <1>7 DEF Ends
  <1> QED
    BY <1>8, AnswerEnds
-----------------------------------------------------------------------------
(* Steps that change the services.                                         *)

(* What a call tells. *)
LEMMA Learns ==
  ASSUME NEW rpc \in Outer, NEW r, NEW facts, facts = Learned(rpc, r)
  PROVE  /\ facts \subseteq Fact
         /\ "created" \in facts => rpc = "CreateTrade"
         /\ "items" \in facts =>
              /\ rpc \in Finding
              /\ rpc = "ListTrades" => TradeKnown(r)
              /\ rpc = "ListFavorites" => db.favorites # {}
              /\ rpc = "ListConversations" => db.conversation /\ r.actor \in Party
         /\ rpc = "BatchGetProducts" /\ ProductKnown => "products" \in facts
  <1> USE DEF Facts
  <1>0. facts \subseteq Fact
    BY DEF Learned, Detailed, HasContact, OnShelf, OfSeller, Existing, Reviewed,
           TradesOf, NewIntent, Commented, FavoritesOf, ConversationsOf, Messages, Fact
  <1>1. rpc # "CreateTrade" => "created" \notin facts
    BY DEF Learned, Detailed, HasContact, OnShelf, OfSeller, Existing, Reviewed,
           TradesOf, NewIntent, Commented, FavoritesOf, ConversationsOf, Messages
  <1>2. rpc \notin Finding => "items" \notin facts
    BY DEF Learned, Detailed, HasContact, Existing, Reviewed, NewIntent, Finding
  <1>3. rpc = "ListTrades" /\ "items" \in facts => TradeKnown(r)
    BY DEF Learned, TradesOf, TradeKnown
  <1>4. rpc = "ListFavorites" /\ "items" \in facts => db.favorites # {}
    BY DEF Learned, FavoritesOf
  <1>5. rpc = "ListConversations" /\ "items" \in facts => db.conversation /\ r.actor \in Party
    BY DEF Learned, ConversationsOf
  <1>6. rpc = "BatchGetProducts" /\ ProductKnown => "products" \in facts
    BY DEF Learned, Existing, ProductKnown
  <1> QED
    BY <1>0, <1>1, <1>2, <1>3, <1>4, <1>5, <1>6

(* What was known before a call that leaves the services in order is known *)
(* after it.                                                               *)
LEMMA KnowledgeStays ==
  ASSUME IInv, NEW rpc, NEW r, Leaves(rpc, r, db'),
         rpc \in {"AddFavorite", "GetOrCreateConversation"} => ProductKnown
  PROVE  /\ (db \in Database)' /\ ReferencesHold' /\ (ProductKnown => ProductKnown')
         /\ \A q : TradeKnown(q) => TradeKnown(q)'
         /\ \A w \in Working : At(w) /\ Knows(w) /\ Settled(w) =>
              (At(w) /\ Knows(w) /\ Settled(w))'
  <1>1. (db \in Database)' /\ ReferencesHold' /\ (ProductKnown => ProductKnown')
    BY DEF Leaves, IInv, ReferencesHold, ProductKnown
  <1>2. \A q : TradeKnown(q) => TradeKnown(q)'
    BY DEF Leaves, TradeKnown
  <1>3. ASSUME NEW w \in Working, At(w), Knows(w), Settled(w)
        PROVE  (At(w) /\ Knows(w) /\ Settled(w))'
    <2>1. At(w)'
      BY <1>1, <1>3 DEF At
    <2>2. Knows(w)'
      BY <1>1, <1>2, <1>3 DEF Knows
    <2>3. Settled(w)'
      BY <1>3 DEF Settled
    <2> QED
      BY <2>1, <2>2, <2>3
  <1> QED
    BY <1>1, <1>2, <1>3

LEMMA ReplyTeaches ==
  ASSUME IInv, NEW s \in Slot, NEW w \in Working, slot[s] = w, w.pc \in {"run", "back"},
         w.pc = "run" => InnerCall(Route(w)[w.i].do, w.req) = NoCall,
         NEW rpc, rpc = Route(w)[w.i].do, Refusal(rpc, w.req) = OK,
         db' = Effect(rpc, w.req),
         NEW v \in Working, v.pc = "step", v.req = w.req, v.i = w.i + 1,
         v.seen = w.seen \cup Learned(rpc, w.req), v.wrote = (w.wrote \/ rpc \in Writing)
  PROVE  /\ (At(v) /\ Knows(v) /\ Settled(v))'
         /\ Leaves(rpc, w.req, db')
         /\ rpc \in {"AddFavorite", "GetOrCreateConversation"} => ProductKnown
  <1> DEFINE step == Route(w)[w.i]
             ep == w.req.ep
             facts == Learned(rpc, w.req)
  <1>1. At(w) /\ Knows(w) /\ Settled(w)
    BY DEF IInv, WorkInv
  <1>2. /\ w.i \in 1..Len(Route(w)) /\ Len(Route(w)) \in Nat /\ rpc \in Outer
        /\ step.when = "always" \/ step.when \in w.seen
        /\ rpc = "GetOrCreateConversation" => w.pc = "back" /\ ProductKnown
    BY <1>1, RouteFacts DEF At, InnerCall, NoCall
  <1>3. /\ Route(v) = Route(w)
        /\ \A st : Passed(v, st) => Passed(w, st) \/ st = step
    BY <1>2 DEF Route, Passed, Before
  <1>4. /\ Prepared(ep, Route(w)) /\ Settles(Route(w)) /\ Named(ep, Route(w))
        /\ ep \in {"createTrade", "getOrCreateProductConversation"} => w.req.actor \in Party
        /\ ep = "createProduct" => w.req.flaw \notin Unfound
        /\ w.req \in AnyRequest
    BY RouteFacts
  <1>5. rpc = "CreateTrade" => ep = "createTrade"
    BY <1>2, <1>4 DEF Named
  <1>6. Leaves(rpc, w.req, db') /\ (rpc \in OnTrade => w.req.actor \in Party)
    BY <1>2, <1>4, <1>5, EffectsLeave DEF IInv, Types
  <1>7. rpc \in {"AddFavorite", "GetOrCreateConversation"} => ProductKnown
    <2>1. rpc = "AddFavorite" => Passed(w, Do("GetProduct"))
      BY <1>2, <1>4 DEF Prepared, Passed
    <2> QED
      BY <1>1, <1>2, <2>1 DEF Knows
  <1>8. /\ ReferencesHold' /\ (ProductKnown => ProductKnown')
        /\ \A q : TradeKnown(q) => TradeKnown(q)'
    BY <1>6, <1>7, KnowledgeStays
  <1>9. At(v)'
    BY <1>2, <1>3 DEF At
  <1>10. Settled(v)'
    <2> SUFFICES ASSUME v.wrote, NEW j \in w.i + 1..Len(Route(w))
                 PROVE  Harmless(Route(w)[j].do, w.req)
      BY <1>3 DEF Settled
    <2>1. j \in w.i..Len(Route(w))
      BY <1>2
    <2>2. CASE w.wrote
      BY <1>1, <2>1, <2>2 DEF Settled
    <2>3. CASE rpc \in Writing
      <3>1. \/ Route(w)[j].do \in Quiet
            \/ Route(w)[j].do = "GetUser" /\ rpc \in Sure
        BY <1>2, <1>4, <2>3 DEF Settles
      <3>2. rpc \in Sure => w.req.flaw \notin Unfound
        <4>1. rpc = "CreateProduct" => ep = "createProduct"
          BY <1>2, <1>4 DEF Named
        <4>2. CASE rpc \in {"UpdateProduct", "OffShelfProduct", "RelistProduct"}
          <5>1. Refusal(rpc, w.req) = ProductRefusal(rpc, w.req)
            BY <4>2, WhoseCall DEF Refusal, ProductRpc
          <5> QED
            BY <4>2, <5>1 DEF ProductRefusal, RefuseUpdateProduct, RefuseOffShelf,
               RefuseRelist, NoProduct, UnfitId, Missing, Wrong, ??, OK, Unfound
        <4> QED
          BY <1>4, <4>1, <4>2 DEF Sure
      <3> QED
        BY <3>1, <3>2 DEF Harmless
    <2> QED
      BY <2>2, <2>3
  <1>11. /\ facts \subseteq Fact
         /\ "created" \in facts => rpc = "CreateTrade"
         /\ "items" \in facts =>
              /\ rpc \in Finding
              /\ rpc = "ListTrades" => TradeKnown(w.req)
              /\ rpc = "ListFavorites" => db.favorites # {}
              /\ rpc = "ListConversations" => db.conversation /\ w.req.actor \in Party
         /\ rpc = "BatchGetProducts" /\ ProductKnown => "products" \in facts
    BY <1>2, Learns
  <1> HIDE DEF facts
  <1>12. Passed(v, Do("GetProduct")) \/ Passed(v, Do("GetOrCreateConversation")) => ProductKnown
    <2>1. step = Do("GetProduct") => ProductKnown
      <3> SUFFICES ASSUME rpc = "GetProduct" PROVE ProductKnown
        BY DEF Do
      <3>1. Refusal(rpc, w.req) = RefuseGetProduct(w.req)
        BY WhoseCall DEF Refusal, ProductRefusal, ProductRpc
      <3> QED
        BY <3>1 DEF RefuseGetProduct, NoProduct, UnfitId, Missing, Wrong, ??, OK,
           ProductKnown
    <2>2. step = Do("GetOrCreateConversation") => ProductKnown
      BY <1>2 DEF Do
    <2> QED
      BY <1>1, <1>3, <2>1, <2>2 DEF Knows
  <1>13. ASSUME NEW named \in OnTrade, Passed(v, Do(named))
         PROVE  TradeKnown(w.req)'
    <2>1. CASE Passed(w, Do(named))
      BY <1>1, <1>8, <2>1 DEF Knows
    <2>2. CASE step = Do(named)
      <3>1. rpc \in OnTrade
        BY <2>2 DEF Do
      <3> QED
        BY <1>6, <3>1 DEF Leaves, TradeKnown
    <2> QED
      BY <1>3, <1>13, <2>1, <2>2
  <1>14. ASSUME "items" \in v.seen
         PROVE  /\ ep = "listTrades" => TradeKnown(w.req)
                /\ ep \in {"listFavorites", "listConversations"} => ProductKnown
                /\ ep = "listConversations" => w.req.actor \in Party
    <2>1. CASE "items" \in w.seen
      BY <1>1, <2>1 DEF Knows
    <2>2. CASE "items" \in facts
      <3>1. /\ ep = "listTrades" => rpc = "ListTrades"
            /\ ep = "listFavorites" => rpc = "ListFavorites"
            /\ ep = "listConversations" => rpc = "ListConversations"
        BY <1>2, <1>4, <1>11, <2>2 DEF Prepared
      <3> QED
        BY <1>11, <2>2, <3>1 DEF IInv, ReferencesHold
    <2> QED
      BY <1>14, <2>1, <2>2 DEF facts
  <1>15. ASSUME "items" \in v.seen, Passed(v, If("items", "BatchGetProducts"))
         PROVE  "products" \in v.seen
    <2>1. CASE step = If("items", "BatchGetProducts")
      <3>1. rpc = "BatchGetProducts" /\ step.when = "items"
        BY <2>1 DEF If
      <3>2. ep \in {"listFavorites", "listConversations"} /\ "items" \in w.seen
        BY <1>2, <1>4, <3>1 DEF Prepared
      <3>3. ProductKnown
        BY <1>1, <3>2 DEF Knows
      <3> QED
        BY <1>11, <3>1, <3>3 DEF facts
    <2>2. CASE Passed(w, If("items", "BatchGetProducts"))
      <3>0. \E j \in 1..w.i - 1 : Route(w)[j].do = "BatchGetProducts"
        BY <2>2 DEF Passed, Before, If
      <3>1. rpc \notin Finding
        BY <1>2, <1>4, <3>0 DEF Prepared
      <3>2. "items" \in w.seen
        BY <1>11, <1>15, <3>1 DEF facts
      <3> QED
        BY <1>1, <2>2, <3>2 DEF Knows
    <2> QED
      BY <1>3, <1>15, <2>1, <2>2
  <1>16. Passed(v, Do("BatchGetProducts")) => "products" \in v.seen
    <2>1. CASE step = Do("BatchGetProducts")
      <3>1. rpc = "BatchGetProducts" /\ step.when = "always"
        BY <2>1 DEF Do
      <3>2. Passed(w, Do("GetOrCreateConversation"))
        <4>1. Before(Route(w), w.i, Do("GetOrCreateConversation"))
          BY <1>2, <1>4, <3>1, Zenon DEF Prepared
        <4> QED
          BY <4>1 DEF Passed
      <3>3. ProductKnown
        BY <1>1, <3>2 DEF Knows
      <3> QED
        BY <1>11, <3>1, <3>3 DEF facts
    <2>2. CASE Passed(w, Do("BatchGetProducts"))
      BY <1>1, <2>2 DEF Knows
    <2> QED
      BY <1>3, <2>1, <2>2
  <1>17. "created" \in v.seen => ep = "createTrade"
    BY <1>1, <1>5, <1>11 DEF Knows, facts
  <1>18. Knows(v)'
    BY <1>8, <1>12, <1>13, <1>14, <1>15, <1>16, <1>17 DEF Knows
  <1> QED
    BY <1>6, <1>7, <1>9, <1>10, <1>18

(* A change of the services, and of one place, leaves the others alone.    *)
LEMMA OthersStay ==
  ASSUME IInv, NEW rpc, NEW r, Leaves(rpc, r, db'),
         rpc \in {"AddFavorite", "GetOrCreateConversation"} => ProductKnown,
         NEW s \in Slot, NEW v \in Working \cup Answered, slot' = [slot EXCEPT ![s] = v],
         v \in Working => (At(v) /\ Knows(v) /\ Settled(v))' /\ slot[s] \notin Answered,
         v \in Answered => AnswerOK(v) /\ slot[s] \in Answered
           /\ v.status = slot[s].status /\ v.req = slot[s].req /\ v.fault = slot[s].fault,
         orphans' \subseteq orphans
  PROVE  IInv'
  <1>1. Types'
    BY KnowledgeStays DEF IInv, Types
  <1>2. \A t \in Slot : (t = s /\ slot'[t] = v) \/ (t # s /\ slot'[t] = slot[t])
    BY DEF IInv, Types
  <1>3. WorkInv'
    <2> SUFFICES ASSUME NEW t \in Slot, NEW w \in Working, slot'[t] = w
                 PROVE  (At(w) /\ Knows(w) /\ Settled(w))'
      BY DEF WorkInv
    <2>1. CASE t = s
      BY <1>2, <2>1
    <2>2. CASE t # s
      <3>1. At(w) /\ Knows(w) /\ Settled(w)
        BY <1>2, <2>2 DEF IInv, WorkInv
      <3> QED
        BY <3>1, KnowledgeStays
    <2> QED
      BY <2>1, <2>2
  <1>4. AnswersInv'
    <2> SUFFICES ASSUME NEW t \in Slot, NEW w \in Answered, slot'[t] = w
                 PROVE  AnswerOK(w)
      BY DEF AnswersInv, AnswerOK
    <2> QED
      BY <1>2 DEF IInv, AnswersInv
  <1>5. OrphansInv'
    <2> SUFFICES ASSUME NEW o \in orphans
                 PROVE  OrphanOK(o)'
      BY DEF OrphansInv
    <2>1. OrphanOK(o) /\ o.slot \in Slot
      BY DEF IInv, OrphansInv, Types
    <2>2. PICK w \in Answered : /\ slot[o.slot] = w /\ w.status = 500
                                /\ o.rpc = "CreateTrade" => w.req.ep = "createTrade"
      BY <2>1 DEF OrphanOK
    <2>3. \E x \in Answered : /\ slot'[o.slot] = x /\ x.status = 500
                              /\ o.rpc = "CreateTrade" => x.req.ep = "createTrade"
      BY <1>2, <2>1, <2>2
    <2>4. o.late /\ o.rpc \in {"AddFavorite", "GetOrCreateConversation"} => ProductKnown'
      BY <2>1, KnowledgeStays DEF OrphanOK
    <2> QED
      BY <2>3, <2>4 DEF OrphanOK
  <1> QED
    BY <1>1, <1>3, <1>4, <1>5, KnowledgeStays DEF IInv

LEMMA ReplyKeepsInvariant ==
  ASSUME IInv, NEW s \in Slot, Reply(s)
  PROVE  IInv'
  <1>1. PICK w \in Working : slot[s] = w
    BY AtWork DEF Reply, Ready
  <1> DEFINE rpc == Route(w)[w.i].do
             code == Refusal(rpc, w.req)
  <1>2. /\ Current(s) = rpc
        /\ w.pc \in {"run", "back"} /\ (w.pc = "run" => InnerCall(rpc, w.req) = NoCall)
    BY <1>1, AtWork DEF Reply, Ready, Current
  <1>3. w.i \in 1..Len(Route(w)) /\ w.i <= Len(Route(w)) /\ rpc \in Outer
    BY <1>1, <1>2, RouteFacts DEF IInv, WorkInv, At
  <1>4. CASE code # OK
    <2>1. Fails(s, Wire(code)) /\ UNCHANGED <<db, orphans>>
      BY <1>1, <1>2, <1>4 DEF Reply
    <2>2. Denies(rpc, w.req, code)
      BY <1>3, <1>4, CallsDeny
    <2>3. rpc = "GetUser" => w.req.flaw \in Unfound
      BY <1>4, WhoseCall DEF Refusal, AccountRpc, AccountRefusal, RefuseGetUser,
         UnfitId, Missing, Wrong, ??, OK, Unfound
    <2> HIDE DEF code, rpc
    <2> QED
      BY <1>1, <1>3, <2>1, <2>2, <2>3, DenialEnds DEF rpc
  <1>5. CASE code = OK
    <2> DEFINE wrote == w.wrote \/ rpc \in Writing
               facts == Learned(rpc, w.req)
               u == [slot[s] EXCEPT !.pc = "step", !.i = @ + 1,
                                    !.seen = @ \cup Learned(Current(s), slot[s].req),
                                    !.wrote = @ \/ Current(s) \in Writing]
    <2>1. facts \subseteq Fact /\ wrote \in BOOLEAN
      BY <1>3, Learns
    <2>2. /\ db' = Effect(Current(s), slot[s].req) /\ slot' = [slot EXCEPT ![s] = u]
          /\ UNCHANGED orphans
      <3>1. Refusal(Current(s), slot[s].req) = OK
        BY <1>1, <1>2, <1>5
      <3>2. db' = Effect(Current(s), slot[s].req) /\ UNCHANGED orphans
        BY <3>1 DEF Reply
      <3>3. slot' = [slot EXCEPT ![s] = u]
        BY <3>1 DEF Reply, IInv, Types
      <3> QED
        BY <3>2, <3>3
    <2>3. u = [w EXCEPT !.pc = "step", !.i = @ + 1, !.seen = @ \cup facts, !.wrote = wrote]
      BY <1>1, <1>2, Zenon
    <2> HIDE DEF u, facts, wrote, rpc
    <2>4. u \in Working
      <3>1. u.i \in Nat /\ u.seen \in SUBSET Fact /\ u.req \in Request
        BY <2>1, <2>3 DEF Working
      <3> QED
        BY <2>1, <2>3, <3>1 DEF Working
    <2>5. \E v \in Working :
             /\ v = u /\ v.pc = "step" /\ v.req = w.req /\ v.i = w.i + 1
             /\ v.seen = w.seen \cup facts /\ v.wrote = wrote
      BY <2>1, <2>3, <2>4 DEF Working
    <2>6. PICK v \in Working :
             /\ v = u /\ v.pc = "step" /\ v.req = w.req /\ v.i = w.i + 1
             /\ v.seen = w.seen \cup Learned(rpc, w.req)
             /\ v.wrote = (w.wrote \/ rpc \in Writing)
      BY <2>5 DEF facts, wrote
    <2>7. db' = Effect(rpc, w.req) /\ slot' = [slot EXCEPT ![s] = v]
      BY <1>1, <1>2, <2>2, <2>6
    <2>8. /\ (At(v) /\ Knows(v) /\ Settled(v))' /\ Leaves(rpc, w.req, db')
          /\ rpc \in {"AddFavorite", "GetOrCreateConversation"} => ProductKnown
      BY <1>1, <1>2, <1>5, <2>6, <2>7, ReplyTeaches DEF rpc
    <2> QED
      BY <1>1, <2>2, <2>6, <2>7, <2>8, Shapes, OthersStay
  <1> QED
    BY <1>4, <1>5

LEMMA GiveUpKeepsInvariant ==
  ASSUME IInv, NEW s \in Slot, GiveUp(s)
  PROVE  IInv'
  <1>1. PICK w \in Working : slot[s] = w
    BY AtWork DEF GiveUp, MayFail, Calling
  <1> DEFINE a == [pc |-> "done", req |-> w.req, status |-> 500, wrote |-> w.wrote,
                   fault |-> TRUE]
             o == [slot |-> s, holds |-> Holds(s), rpc |-> Current(s),
                   late |-> Ready(s) /\ Current(s) \in Writing]
             rpc == Route(w)[w.i].do
  <1>2. slot' = [slot EXCEPT ![s] = a] /\ UNCHANGED db
    <2>1. Finished(s, 500, TRUE) /\ UNCHANGED db
      BY FailuresAreInternal DEF GiveUp
    <2> QED
      BY <1>1, <2>1 DEF Finished
  <1>3. a \in Answered /\ AnswerOK(a) /\ a.status = 500 /\ a.req = w.req
    BY Results DEF Answered, Working, AnswerOK
  <1> HIDE DEF a
  <1>4. At(w) /\ Knows(w) /\ slot[s] \notin Answered
    BY <1>1, Shapes DEF IInv, WorkInv
  <1>5. CASE UNCHANGED orphans
    BY <1>1, <1>2, <1>3, <1>4, <1>5, Shapes, OneSlotMoves
  <1>6. CASE orphans' = orphans \cup {o} /\ ~Calling(s)
    <2>1. /\ w.pc \in {"run", "inner", "back"} /\ Current(s) = rpc
          /\ w.i \in 1..Len(Route(w)) /\ rpc \in Outer
      BY <1>1, <1>4, <1>6, AtWork, RouteFacts DEF GiveUp, MayFail, Current, At
    <2>2. /\ o.slot = s /\ o.rpc = rpc
          /\ o.late => Ready(s)
      BY <2>1
    <2> HIDE DEF o
    <2>3. rpc = "CreateTrade" => w.req.ep = "createTrade"
      BY <2>1, RouteFacts DEF Named
    <2>4. o.late /\ rpc \in {"AddFavorite", "GetOrCreateConversation"} => ProductKnown
      <3>1. rpc = "AddFavorite" => Passed(w, Do("GetProduct"))
        BY <2>1, RouteFacts DEF Prepared, Passed
      <3>2. rpc = "GetOrCreateConversation" /\ Ready(s) => w.pc = "back"
        BY <1>1, <2>1 DEF Ready, InnerCall, NoCall
      <3> QED
        BY <1>4, <2>1, <2>2, <3>1, <3>2 DEF Knows, At
    <2>5. \A t \in Slot : (t = s /\ slot'[t] = a) \/ (t # s /\ slot'[t] = slot[t])
      BY <1>2 DEF IInv, Types
    <2>6. Types'
      BY <1>2, <1>3, <1>6, <2>1, <2>2 DEF IInv, Types
    <2>7. WorkInv'
      <3> SUFFICES ASSUME NEW t \in Slot, NEW v \in Working, slot'[t] = v
                   PROVE  (At(v) /\ Knows(v) /\ Settled(v))'
        BY DEF WorkInv
      <3>1. At(v) /\ Knows(v) /\ Settled(v)
        BY <1>3, <2>5, Shapes DEF IInv, WorkInv
      <3> QED
        BY <1>2, <3>1 DEF At, Knows, Settled, ProductKnown, TradeKnown
    <2>8. AnswersInv'
      <3> SUFFICES ASSUME NEW t \in Slot, NEW v \in Answered, slot'[t] = v
                   PROVE  AnswerOK(v)
        BY DEF AnswersInv, AnswerOK
      <3> QED
        BY <1>3, <2>5 DEF IInv, AnswersInv
    <2>9. OrphansInv'
      <3> SUFFICES ASSUME NEW q \in orphans \cup {o}
                   PROVE  OrphanOK(q)'
        BY <1>6 DEF OrphansInv
      <3>1. CASE q = o
        BY <1>2, <1>3, <2>2, <2>3, <2>4, <2>5, <3>1 DEF OrphanOK, ProductKnown
      <3>2. CASE q \in orphans
        <4>1. OrphanOK(q) /\ q.slot \in Slot
          BY <3>2 DEF IInv, OrphansInv, Types
        <4>2. q.slot # s
          BY <1>4, <4>1 DEF OrphanOK
        <4> QED
          BY <1>2, <2>5, <4>1, <4>2 DEF OrphanOK, ProductKnown
      <3> QED
        BY <3>1, <3>2
    <2>10. ReferencesHold'
      BY <1>2 DEF IInv, ReferencesHold, ProductKnown
    <2> QED
      BY <2>6, <2>7, <2>8, <2>9, <2>10 DEF IInv
  <1> QED
    BY <1>5, <1>6 DEF GiveUp

LEMMA LandKeepsInvariant ==
  ASSUME IInv, NEW o \in orphans, Land(o)
  PROVE  IInv'
  <1>1. /\ o.slot \in Slot /\ o.rpc \in Outer /\ OrphanOK(o)
        /\ orphans' = orphans \ {o}
    BY DEF IInv, Types, OrphansInv, Land
  <1>2. CASE UNCHANGED <<db, slot>>
    <2>1. Types' /\ ReferencesHold'
      BY <1>1, <1>2 DEF IInv, Types, ReferencesHold, ProductKnown
    <2>2. WorkInv' /\ AnswersInv'
      BY <1>2 DEF IInv, WorkInv, AnswersInv, At, Knows, Settled, ProductKnown,
         TradeKnown
    <2>3. OrphansInv'
      BY <1>1, <1>2 DEF IInv, OrphansInv, OrphanOK, ProductKnown
    <2> QED
      BY <2>1, <2>2, <2>3 DEF IInv
  <1>3. CASE /\ o.late /\ Refusal(o.rpc, slot[o.slot].req) = OK
             /\ db' = Effect(o.rpc, slot[o.slot].req)
             /\ slot' = [slot EXCEPT ![o.slot].wrote = TRUE]
    <2>1. PICK w \in Answered : /\ slot[o.slot] = w /\ w.status = 500
                                /\ o.rpc = "CreateTrade" => w.req.ep = "createTrade"
      BY <1>1 DEF OrphanOK
    <2> DEFINE v == [w EXCEPT !.wrote = TRUE]
    <2>2. v \in Answered /\ v.status = 500 /\ v.req = w.req /\ v.fault = w.fault
      <3>1. v \in Answered
        BY <2>1 DEF Answered
      <3>2. v.status = w.status /\ v.req = w.req
        BY <2>1 DEF Answered
      <3>3. v.fault = w.fault
        BY <2>1 DEF Answered
      <3> QED
        BY <2>1, <3>1, <3>2, <3>3
    <2>3. slot' = [slot EXCEPT ![o.slot] = v]
      BY <1>1, <1>3, <2>1 DEF Answered, IInv, Types
    <2>4. AnswerOK(v)
      BY <1>1, <2>1, <2>2, Results DEF AnswerOK, IInv, AnswersInv
    <2> HIDE DEF v
    <2>5. w.req \in AnyRequest /\ (o.rpc = "CreateTrade" => w.req.actor \in Party)
      BY <2>1, RequestAssumption DEF Answered
    <2>6. Leaves(o.rpc, w.req, db')
      BY <1>1, <1>3, <2>1, <2>5, EffectsLeave DEF IInv, Types
    <2>7. o.rpc \in {"AddFavorite", "GetOrCreateConversation"} => ProductKnown
      BY <1>1, <1>3 DEF OrphanOK
    <2>8. orphans' \subseteq orphans /\ v \notin Working
      BY <1>1, <2>2, Shapes
    <2>9. /\ v.status = slot[o.slot].status /\ v.req = slot[o.slot].req
          /\ v.fault = slot[o.slot].fault /\ slot[o.slot] \in Answered
      BY <2>1, <2>2
    <2> QED
      BY <1>1, <2>2, <2>3, <2>4, <2>6, <2>7, <2>8, <2>9, OthersStay
  <1> QED
    BY <1>2, <1>3 DEF Land

LEMMA Initially == Init => IInv
  <1> SUFFICES ASSUME Init PROVE IInv
    OBVIOUS
  <1>1. Types /\ ReferencesHold
    BY StartAssumption DEF Init, Types, ReferencesHold, ProductKnown
  <1>2. \A s \in Slot : slot[s] = Idle
    BY DEF Init
  <1>3. WorkInv /\ AnswersInv
    BY <1>2, Shapes DEF WorkInv, AnswersInv
  <1>4. OrphansInv
    BY DEF Init, OrphansInv
  <1> QED
    BY <1>1, <1>3, <1>4 DEF IInv

LEMMA Inductive == IInv /\ [Next]_vars => IInv'
  <1> SUFFICES ASSUME IInv, [Next]_vars PROVE IInv'
    OBVIOUS
  <1>1. CASE UNCHANGED vars
    BY <1>1 DEF vars, IInv, Types, ReferencesHold, WorkInv, AnswersInv, OrphansInv, At,
       Knows, Settled, OrphanOK, ProductKnown, TradeKnown
  <1>2. CASE Next
    BY <1>2, BeginKeepsInvariant, SkipKeepsInvariant, CheckKeepsInvariant,
       UnsentKeepsInvariant, ConnectKeepsInvariant, CallInnerKeepsInvariant,
       InnerAnswerKeepsInvariant, ReplyKeepsInvariant, RespondKeepsInvariant, GiveUpKeepsInvariant,
       LandKeepsInvariant DEF Next
  <1> QED
    BY <1>1, <1>2

LEMMA Invariance == Spec => []IInv
  BY Initially, Inductive, PTL DEF Spec
-----------------------------------------------------------------------------
(* What clients are promised.                                              *)

(* A refused request has changed nothing, and nothing that it left behind  *)
(* in a service is still to change something: once a call has changed      *)
(* something the rest of the route refuses nothing, and a call is left     *)
(* behind only by a request that is answered 500.                          *)
THEOREM RefusedRequestsLeaveNothing == Spec => []RefusalsAreClean
  <1>1. IInv => RefusalsAreClean
    <2> SUFFICES ASSUME IInv, NEW s \in Slot, Done(s), slot[s].status \in 400..499
                 PROVE  ~slot[s].wrote /\ \A o \in orphans : o.slot = s => ~o.late
      BY DEF RefusalsAreClean
    <2>1. PICK w \in Answered : slot[s] = w
      BY Shapes DEF IInv, Types, Done
    <2>2. ~w.wrote
      BY <2>1 DEF IInv, AnswersInv, AnswerOK
    <2>3. ASSUME NEW o \in orphans, o.slot = s
          PROVE  FALSE
      <3>1. slot[o.slot].status = 500
        BY DEF IInv, OrphansInv, OrphanOK
      <3> QED
        BY <2>3, <3>1
    <2> QED
      BY <2>1, <2>2, <2>3
  <1> QED
    BY <1>1, Invariance, PTL

(* An answer 500 means that a call of the request has failed, or that the  *)
(* request holds what no check looks for: no state of the services, and no *)
(* interleaving of requests, makes a handler or a service answer it.       *)
THEOREM ErrorsComeFromFaults == Spec => []OnlyFaultsFail
  <1>1. IInv => OnlyFaultsFail
    <2> SUFFICES ASSUME IInv, NEW s \in Slot, Done(s), slot[s].status = 500
                 PROVE  slot[s].fault \/ Excused(slot[s].req)
      BY DEF OnlyFaultsFail, Excused
    <2>1. PICK w \in Answered : slot[s] = w
      BY Shapes DEF IInv, Types, Done
    <2> QED
      BY <2>1 DEF IInv, AnswersInv, AnswerOK
  <1> QED
    BY <1>1, Invariance, PTL

(* Whatever refuses a request, on whichever route, the status that the     *)
(* client gets is declared for its endpoint or one of the known gaps.      *)
THEOREM AnswersKeepTheContract == Spec => []AnswersWithinContract
  <1>1. IInv => AnswersWithinContract
    <2> SUFFICES ASSUME IInv, NEW s \in Slot, Done(s)
                 PROVE  slot[s].status \in Result(slot[s].req.ep)
      BY DEF AnswersWithinContract, Result
    <2>1. PICK w \in Answered : slot[s] = w
      BY Shapes DEF IInv, Types, Done
    <2> QED
      BY <2>1 DEF IInv, AnswersInv, AnswerOK
  <1> QED
    BY <1>1, Invariance, PTL

(* Contact data is looked up only after a call that refuses the trade to   *)
(* everybody but its two sides, or for trades found for one of them.       *)
THEOREM ContactsAreForParties == Spec => []ContactsStayBetweenParties
  <1>1. IInv => ContactsStayBetweenParties
    <2> SUFFICES ASSUME IInv, NEW s \in Slot, Calling(s), Current(s) = "BatchGetUserContacts"
                 PROVE  slot[s].req.actor \in Party /\ db.trade # "NONE"
      BY DEF ContactsStayBetweenParties
    <2>1. PICK w \in Working : slot[s] = w
      BY AtWork DEF Calling
    <2>2. /\ Route(w)[w.i].do = "BatchGetUserContacts" /\ w.i \in 1..Len(Route(w)) /\ Knows(w)
          /\ Route(w)[w.i].when = "always" \/ Route(w)[w.i].when \in w.seen
      BY <2>1, AtWork, RouteFacts DEF Calling, Current, Skipped, At
    <2>3. \/ \E rpc \in OnTrade : Passed(w, Do(rpc))
          \/ "items" \in w.seen /\ w.req.ep = "listTrades"
      BY <2>2, RouteFacts DEF Prepared, Passed
    <2>4. TradeKnown(w.req)
      BY <2>2, <2>3 DEF Knows
    <2> QED
      BY <2>1, <2>4 DEF TradeKnown
  <1> QED
    BY <1>1, Invariance, PTL
-----------------------------------------------------------------------------
(* The Account service behind it, on its own.                              *)

(* The row a request is going to write. *)
PendingWrite ==
  [pc : {"write"}, op : {"profile", "password", "login"}, user : User, copy : Account,
   asks : Asks]

AccountTypes ==
  /\ accounts \in [User -> Account \cup {NoAccount}]
  /\ requests \in [Worker -> PendingWrite \cup {NoRequest}]
  /\ tokens \subseteq [user : User, password : Password]
  /\ chosen \in [User -> SUBSET Password]

(* A copy may be out of date in every column but these: its number is the  *)
(* account's, and its password one the owner set, be it an old one.        *)
CopiesAreOwn ==
  \A w \in Worker : requests[w].pc = "write" =>
    LET u == requests[w].user
        copy == requests[w].copy
    IN  /\ Exists(u)
        /\ copy.studentNo = accounts[u].studentNo
        /\ copy.hash.of \in chosen[u]

NumbersAreReal == \A u \in User : Exists(u) => accounts[u].studentNo # Null

TokensHaveAccounts == \A k \in tokens : Exists(k.user)

AccountInv ==
  /\ AccountTypes /\ NumbersAreReal /\ CopiesAreOwn /\ TokensHaveAccounts
  /\ PasswordsAreTheOwners

LEMMA RowShapes ==
  /\ \A row \in Account : row.studentNo # Null => row # NoAccount
  /\ NoAccount.studentNo = Null
  /\ \A q \in PendingWrite : q # NoRequest /\ q.pc = "write"
  /\ NoRequest.pc # "write"
  BY DEF Account, NoAccount, PendingWrite, NoRequest, Null

LEMMA NothingAsked == Nothing \in Asks /\ NamedBy(Nothing) = {}
  BY DEF Nothing, Asks, NamedBy, Column

(* A request that only keeps a copy to write leaves the tables alone.      *)
LEMMA CopyKeepsInvariant ==
  ASSUME AccountInv, NEW w \in Worker, NEW op \in {"profile", "password", "login"},
         NEW u \in User, NEW copy \in Account,
         NEW asks \in Asks, WillWrite(w, op, u, copy, asks), Exists(u),
         copy.studentNo = accounts[u].studentNo,
         UNCHANGED <<accounts, tokens>>,
         chosen' \in [User -> SUBSET Password],
         \A v \in User : chosen[v] \subseteq chosen'[v],
         copy.hash.of \in chosen'[u]
  PROVE  AccountInv'
  <1> DEFINE q == [pc |-> "write", op |-> op, user |-> u, copy |-> copy,
                   asks |-> asks]
  <1>1. q \in PendingWrite
    BY DEF PendingWrite
  <1>2. requests' = [requests EXCEPT ![w] = q]
    BY DEF WillWrite
  <1>3. AccountTypes'
    BY <1>1, <1>2 DEF AccountInv, AccountTypes
  <1>4. CopiesAreOwn'
    <2> SUFFICES ASSUME NEW v \in Worker, requests'[v].pc = "write"
                 PROVE  /\ Exists(requests'[v].user)
                        /\ requests'[v].copy.studentNo = accounts[requests'[v].user].studentNo
                        /\ requests'[v].copy.hash.of \in chosen'[requests'[v].user]
      BY DEF CopiesAreOwn, Exists
    <2>1. CASE v = w
      BY <1>2, <2>1 DEF AccountInv, AccountTypes
    <2>2. CASE v # w
      <3>1. requests'[v] = requests[v] /\ requests[v] \in PendingWrite
        BY <1>2, <2>2, RowShapes DEF AccountInv, AccountTypes
      <3> QED
        BY <3>1 DEF AccountInv, CopiesAreOwn, PendingWrite
    <2> QED
      BY <2>1, <2>2
  <1>5. TokensHaveAccounts'
    BY DEF AccountInv, TokensHaveAccounts, Exists
  <1>6. PasswordsAreTheOwners'
    BY DEF AccountInv, AccountTypes, PasswordsAreTheOwners, Exists
  <1>7. NumbersAreReal'
    BY DEF AccountInv, NumbersAreReal, Exists
  <1> QED
    BY <1>3, <1>4, <1>5, <1>6, <1>7 DEF AccountInv

LEMMA RegisterKeepsInvariant ==
  ASSUME AccountInv, NEW n \in StudentNo, NEW u \in User, NEW password \in Password,
         NEW nickname \in Nickname, NEW contact \in Contact \cup {Null},
         Register(n, u, password, nickname, contact)
  PROVE  AccountInv'
  <1>1. PICK cost \in Cost : accounts' = [accounts EXCEPT ![u] =
            [studentNo |-> n, hash |-> [of |-> password, cost |-> cost],
             nickname |-> nickname, contact |-> contact]]
    BY DEF Register
  <1> DEFINE row == [studentNo |-> n, hash |-> [of |-> password, cost |-> cost],
                     nickname |-> nickname, contact |-> contact]
  <1>2. row \in Account /\ row.studentNo = n /\ row.hash.of = password
    BY DEF Account, Hash
  <1> HIDE DEF row
  <1>3. /\ accounts' = [accounts EXCEPT ![u] = row]
        /\ chosen' = [chosen EXCEPT ![u] = {password}]
        /\ tokens' = tokens \cup {[user |-> u, password |-> password]}
        /\ requests' = requests
        /\ ~Exists(u) /\ \A v \in User : accounts[v].studentNo # n
    BY <1>1 DEF Register, Token, row
  <1>4. AccountTypes'
    BY <1>2, <1>3 DEF AccountInv, AccountTypes
  <1>5. \A w \in Worker :
          requests[w].pc = "write" => requests[w].user # u /\ requests[w].user \in User
    BY <1>3, RowShapes DEF AccountInv, AccountTypes, CopiesAreOwn, PendingWrite
  <1>6. CopiesAreOwn'
    BY <1>3, <1>5 DEF AccountInv, AccountTypes, CopiesAreOwn, Exists
  <1>9. TokensHaveAccounts'
    BY <1>2, <1>3, RowShapes DEF AccountInv, AccountTypes, TokensHaveAccounts, Exists
  <1>8. PasswordsAreTheOwners'
    <2>1. \A k \in tokens : k.user # u
      BY <1>3 DEF AccountInv, TokensHaveAccounts
    <2> QED
      BY <1>2, <1>3, <2>1 DEF AccountInv, AccountTypes, PasswordsAreTheOwners,
         Exists
  <1>10. NumbersAreReal'
    <2>1. n # Null
      BY <1>3, RowShapes DEF Exists
    <2> QED
      BY <1>2, <1>3, <2>1 DEF AccountInv, AccountTypes, NumbersAreReal, Exists
  <1> QED
    BY <1>4, <1>6, <1>8, <1>9, <1>10 DEF AccountInv

(* A write puts back a row that is the account's own, however old.         *)
LEMMA WriteKeepsInvariant ==
  ASSUME AccountInv, NEW w \in Worker, Write(w)
  PROVE  AccountInv'
  <1> DEFINE u == requests[w].user
             copy == requests[w].copy
  <1>1. requests[w] \in PendingWrite /\ u \in User /\ copy \in Account
    BY RowShapes DEF AccountInv, AccountTypes, Write, PendingWrite
  <1>2. /\ Exists(u) /\ copy.studentNo = accounts[u].studentNo
        /\ copy.hash.of \in chosen[u]
    BY DEF AccountInv, CopiesAreOwn, Write
  <1>3. /\ accounts' = [accounts EXCEPT ![u] = copy]
        /\ requests' = [requests EXCEPT ![w] = NoRequest]
        /\ chosen' = chosen
        /\ tokens' = tokens \/ tokens' = tokens \cup {[user |-> u, password |-> copy.hash.of]}
    BY DEF Write, Token
  <1>4. copy.hash.of \in Password
    BY <1>1 DEF Account, Hash
  <1> HIDE DEF u, copy
  <1>5. AccountTypes'
    BY <1>1, <1>3, <1>4 DEF AccountInv, AccountTypes
  <1>6. /\ \A v \in User : Exists(v)' <=> Exists(v)
        /\ \A v \in User : accounts'[v].studentNo = accounts[v].studentNo
    <2>1. copy # NoAccount
      BY <1>1, <1>2, RowShapes DEF AccountInv, NumbersAreReal
    <2> QED
      BY <1>1, <1>2, <1>3, <2>1 DEF AccountInv, AccountTypes, Exists
  <1>7. CopiesAreOwn'
    <2> SUFFICES ASSUME NEW v \in Worker, requests'[v].pc = "write"
                 PROVE  /\ Exists(requests[v].user)'
                        /\ requests'[v].copy.studentNo = accounts'[requests'[v].user].studentNo
                        /\ requests'[v].copy.hash.of \in chosen'[requests'[v].user]
      BY DEF CopiesAreOwn, Exists
    <2>1. requests'[v] = requests[v] /\ requests[v] \in PendingWrite /\ requests[v].user \in User
      BY <1>3, RowShapes DEF AccountInv, AccountTypes, PendingWrite
    <2> QED
      BY <1>3, <1>6, <2>1 DEF AccountInv, CopiesAreOwn
  <1>8. TokensHaveAccounts'
    BY <1>1, <1>2, <1>3, <1>6 DEF AccountInv, AccountTypes, TokensHaveAccounts
  <1>10. PasswordsAreTheOwners'
    BY <1>1, <1>2, <1>3 DEF AccountInv, AccountTypes, PasswordsAreTheOwners, Exists
  <1>11. NumbersAreReal'
    BY <1>6 DEF AccountInv, NumbersAreReal
  <1> QED
    BY <1>5, <1>7, <1>8, <1>10, <1>11 DEF AccountInv

(* A token for a password the owner set changes nothing that matters.      *)
LEMMA TokenKeepsInvariant ==
  ASSUME AccountInv, NEW u \in User, NEW password \in Password,
         Exists(u), password \in chosen[u],
         requests' \in [Worker -> PendingWrite \cup {NoRequest}],
         \A v \in Worker : requests'[v] = requests[v] \/ requests'[v] = NoRequest,
         tokens' = tokens \/ tokens' = tokens \cup {[user |-> u, password |-> password]},
         UNCHANGED <<accounts, chosen>>
  PROVE  AccountInv'
  <1>1. AccountTypes'
    BY DEF AccountInv, AccountTypes
  <1>2. CopiesAreOwn'
    <2> SUFFICES ASSUME NEW v \in Worker, requests'[v].pc = "write"
                 PROVE  /\ Exists(requests[v].user)'
                        /\ requests'[v].copy.studentNo = accounts'[requests'[v].user].studentNo
                        /\ requests'[v].copy.hash.of \in chosen'[requests'[v].user]
      BY DEF CopiesAreOwn, Exists
    <2>1. requests'[v] = requests[v]
      BY RowShapes
    <2> QED
      BY <2>1 DEF AccountInv, CopiesAreOwn, Exists
  <1>3. /\ (NumbersAreReal /\ TokensHaveAccounts)'
        /\ PasswordsAreTheOwners'
    BY DEF AccountInv, NumbersAreReal, TokensHaveAccounts,
           PasswordsAreTheOwners, Exists
  <1> QED
    BY <1>1, <1>2, <1>3 DEF AccountInv

LEMMA FailKeepsInvariant ==
  ASSUME AccountInv, NEW w \in Worker, Fail(w)
  PROVE  AccountInv'
  <1>1. requests[w] \in PendingWrite
    BY RowShapes DEF AccountInv, AccountTypes, Fail
  <1>2. /\ requests[w].user \in User /\ requests[w].copy.hash.of \in Password
        /\ Exists(requests[w].user)
        /\ requests[w].copy.hash.of \in chosen[requests[w].user]
    BY <1>1 DEF AccountInv, CopiesAreOwn, Fail, PendingWrite, Account, Hash
  <1>3. /\ requests' = [requests EXCEPT ![w] = NoRequest]
        /\ UNCHANGED <<accounts, chosen>>
        /\ \/ tokens' = tokens
           \/ tokens' = tokens \cup
                {[user |-> requests[w].user, password |-> requests[w].copy.hash.of]}
    BY DEF Fail, Token, history
  <1>4. /\ requests' \in [Worker -> PendingWrite \cup {NoRequest}]
        /\ \A v \in Worker : requests'[v] = requests[v] \/ requests'[v] = NoRequest
    BY <1>3 DEF AccountInv, AccountTypes
  <1> QED
    BY <1>2, <1>3, <1>4, TokenKeepsInvariant

LEMMA LoginKeepsInvariant ==
  ASSUME AccountInv, NEW w \in Worker, NEW u \in User, NEW password \in Password,
         Login(w, u, password)
  PROVE  AccountInv'
  <1>1. /\ accounts[u] \in Account /\ Exists(u)
        /\ accounts[u].hash.of \in chosen[u] /\ accounts[u].hash.of = password
    BY DEF AccountInv, AccountTypes, PasswordsAreTheOwners, Login, Exists,
           Verify
  <1>2. CASE WillWrite(w, "login", u, [accounts[u] EXCEPT !.hash.cost = "current"], Nothing)
             /\ UNCHANGED tokens
    <2> DEFINE copy == [accounts[u] EXCEPT !.hash.cost = "current"]
    <2>1. /\ copy \in Account /\ copy.studentNo = accounts[u].studentNo
          /\ copy.hash.of = password
      BY <1>1 DEF Account, Hash, Cost
    <2> HIDE DEF copy
    <2> QED
      BY <1>1, <1>2, <2>1, CopyKeepsInvariant, NothingAsked DEF Login, AccountInv,
         AccountTypes, copy
  <1>3. CASE tokens' = tokens \cup {Token(u, password)} /\ UNCHANGED requests
    BY <1>1, <1>3, TokenKeepsInvariant DEF Login, AccountInv, AccountTypes, Token
  <1> QED
    BY <1>2, <1>3 DEF Login

LEMMA ChangePasswordKeepsInvariant ==
  ASSUME AccountInv, NEW w \in Worker, NEW u \in User, NEW old \in Password,
         NEW new \in Password, ChangePassword(w, u, old, new)
  PROVE  AccountInv'
  <1> DEFINE copy == [accounts[u] EXCEPT !.hash = [of |-> new, cost |-> "current"]]
             asks == [Nothing EXCEPT !.password = new]
  <1>1. accounts[u] \in Account /\ Exists(u)
    BY DEF AccountInv, AccountTypes, ChangePassword, Exists
  <1>2. /\ copy \in Account /\ copy.studentNo = accounts[u].studentNo
        /\ copy.hash.of = new /\ asks \in Asks
    BY <1>1 DEF Account, Hash, Cost, Nothing, Asks
  <1>3. /\ WillWrite(w, "password", u, copy, asks)
        /\ chosen' = [chosen EXCEPT ![u] = @ \cup {new}]
        /\ UNCHANGED <<accounts, tokens>>
    BY DEF ChangePassword
  <1> HIDE DEF copy, asks
  <1>4. /\ chosen' \in [User -> SUBSET Password]
        /\ \A v \in User : chosen[v] \subseteq chosen'[v]
        /\ new \in chosen'[u]
    BY <1>3 DEF AccountInv, AccountTypes
  <1> QED
    BY <1>1, <1>2, <1>3, <1>4, CopyKeepsInvariant

LEMMA UpdateProfileKeepsInvariant ==
  ASSUME AccountInv, NEW w \in Worker, NEW u \in User, UpdateProfile(w, u)
  PROVE  AccountInv'
  <1>1. accounts[u] \in Account /\ Exists(u) /\ accounts[u].hash.of \in chosen[u]
    BY DEF AccountInv, AccountTypes, PasswordsAreTheOwners, UpdateProfile, Exists
  <1>2. PICK nickname \in Nickname \cup {Null}, contact \in Contact \cup {Null} :
          WillWrite(w, "profile", u,
            [accounts[u] EXCEPT !.nickname = IF nickname = Null THEN @ ELSE nickname,
                                !.contact = IF contact = Null THEN @ ELSE contact],
            [Nothing EXCEPT !.nickname = nickname, !.contact = contact])
    BY DEF UpdateProfile
  <1> DEFINE copy ==
        [accounts[u] EXCEPT !.nickname = IF nickname = Null THEN @ ELSE nickname,
                            !.contact = IF contact = Null THEN @ ELSE contact]
             asks == [Nothing EXCEPT !.nickname = nickname, !.contact = contact]
  <1>3. /\ copy \in Account /\ copy.studentNo = accounts[u].studentNo
        /\ copy.hash.of = accounts[u].hash.of /\ asks \in Asks
    BY <1>1 DEF Account, Nothing, Asks
  <1>4. WillWrite(w, "profile", u, copy, asks) /\ UNCHANGED <<accounts, tokens, chosen>>
    BY <1>2 DEF UpdateProfile
  <1> HIDE DEF copy, asks
  <1> QED
    BY <1>1, <1>3, <1>4, CopyKeepsInvariant DEF AccountInv, AccountTypes

LEMMA AccountInductive == AccountInv /\ [AccountNext]_accountVars => AccountInv'
  <1> SUFFICES ASSUME AccountInv, [AccountNext]_accountVars PROVE AccountInv'
    OBVIOUS
  <1>1. CASE UNCHANGED accountVars
    BY <1>1 DEF accountVars, AccountInv, AccountTypes, NumbersAreReal, CopiesAreOwn,
       TokensHaveAccounts, PasswordsAreTheOwners, Exists, history
  <1>2. CASE AccountNext
    BY <1>2, RegisterKeepsInvariant, UpdateProfileKeepsInvariant,
       ChangePasswordKeepsInvariant, LoginKeepsInvariant, WriteKeepsInvariant,
       FailKeepsInvariant DEF AccountNext
  <1> QED
    BY <1>1, <1>2

LEMMA AccountInitially == AccountInit => AccountInv
  BY RowShapes DEF AccountInit, AccountInv, AccountTypes, NumbersAreReal, CopiesAreOwn,
     TokensHaveAccounts,
     PasswordsAreTheOwners, Exists

(* A stored password may be an old one, but it is one its owner set, and   *)
(* so is the password behind every token.                                  *)
THEOREM PasswordsCorrect == AccountSpec => []PasswordsAreTheOwners
  <1>1. AccountInv => PasswordsAreTheOwners
    BY DEF AccountInv
  <1> QED
    BY <1>1, AccountInitially, AccountInductive, PTL DEF AccountSpec

-----------------------------------------------------------------------------
(* Which changes of an account last.                                       *)

Value == Password \cup Nickname \cup Contact \cup {Null}

(* A copy has what the request asks for, and in the other columns what the *)
(* owner was last told, unless somebody has set them in the meantime.      *)
UpToDate(w) ==
  LET r == requests[w] IN
  \A c \in Column :
    /\ r.asks[c] # Null => Columns(r.copy)[c] = r.asks[c]
    /\ r.asks[c] = Null /\ c \notin since[w] /\ c \notin undone[r.user] =>
         Columns(r.copy)[c] = told[r.user][c]

HistoryTypes ==
  /\ told \in [User -> [Column -> Value]]
  /\ since \in [Worker -> SUBSET Column]
  /\ undone \in [User -> SUBSET Column]

LastInv ==
  /\ HistoryTypes /\ LastChangeIsKept
  /\ \A w \in Worker : requests[w].pc = "write" => UpToDate(w)

LEMMA ColumnByColumn ==
  /\ \A c \in Column : c = "password" \/ c = "nickname" \/ c = "contact"
  /\ \A row : /\ Columns(row)["password"] = row.hash.of
              /\ Columns(row)["nickname"] = row.nickname
              /\ Columns(row)["contact"] = row.contact
  BY DEF Column, Columns

LEMMA AskedValues ==
  /\ Nothing \in [Column -> Value] /\ \A c \in Column : Nothing[c] = Null
  /\ \A asks \in Asks, c \in Column : asks[c] \in Value
  /\ \A p \in Password, m \in Nickname, k \in Contact \cup {Null} :
       [password |-> p, nickname |-> m, contact |-> k] \in [Column -> Value]
  BY DEF Nothing, Asks, Column, Value

(* A request reads the row and copies what it does not change.             *)
LEMMA ReadingKeepsLast ==
  ASSUME AccountInv, LastInv, NEW w \in Worker, NEW u \in User, NEW op, NEW copy,
         NEW asks \in Asks, WillWrite(w, op, u, copy, asks), Exists(u),
         UNCHANGED <<accounts, told, undone>>,
         \A c \in Column : Columns(copy)[c] =
           IF asks[c] = Null THEN Columns(accounts[u])[c] ELSE asks[c]
  PROVE  LastInv'
  <1>1. /\ requests' = [requests EXCEPT ![w] = [pc |-> "write", op |-> op, user |-> u,
                                               copy |-> copy, asks |-> asks]]
        /\ since' = [since EXCEPT ![w] = {}]
    BY DEF WillWrite
  <1>2. HistoryTypes'
    BY <1>1 DEF LastInv, HistoryTypes
  <1>3. LastChangeIsKept'
    BY DEF LastInv, LastChangeIsKept, Exists
  <1>4. ASSUME NEW v \in Worker, requests'[v].pc = "write"
        PROVE  UpToDate(v)'
    <2>1. CASE v = w
      <3>1. requests'[v].user = u /\ requests'[v].copy = copy /\ requests'[v].asks = asks
        BY <1>1, <2>1 DEF AccountInv, AccountTypes
      <3>2. \A c \in Column : c \notin undone[u] => Columns(accounts[u])[c] = told[u][c]
        BY DEF LastInv, LastChangeIsKept
      <3> QED
        BY <3>1, <3>2 DEF UpToDate
    <2>2. CASE v # w
      <3>1. requests'[v] = requests[v] /\ since'[v] = since[v]
        BY <1>1, <2>2 DEF AccountInv, AccountTypes, LastInv, HistoryTypes
      <3>2. UpToDate(v)
        BY <1>4, <3>1 DEF LastInv
      <3> QED
        BY <3>1, <3>2 DEF UpToDate
    <2> QED
      BY <2>1, <2>2
  <1> QED
    BY <1>2, <1>3, <1>4 DEF LastInv

LEMMA UpdateProfileKeepsLast ==
  ASSUME AccountInv, LastInv, NEW w \in Worker, NEW u \in User, UpdateProfile(w, u)
  PROVE  LastInv'
  <1>1. PICK nickname \in Nickname \cup {Null}, contact \in Contact \cup {Null} :
          WillWrite(w, "profile", u,
            [accounts[u] EXCEPT !.nickname = IF nickname = Null THEN @ ELSE nickname,
                                !.contact = IF contact = Null THEN @ ELSE contact],
            [Nothing EXCEPT !.nickname = nickname, !.contact = contact])
    BY DEF UpdateProfile
  <1> DEFINE copy ==
        [accounts[u] EXCEPT !.nickname = IF nickname = Null THEN @ ELSE nickname,
                            !.contact = IF contact = Null THEN @ ELSE contact]
             asks == [Nothing EXCEPT !.nickname = nickname, !.contact = contact]
  <1>2. accounts[u] \in Account /\ Exists(u)
    BY DEF AccountInv, AccountTypes, UpdateProfile, Exists
  <1>3. /\ asks \in Asks /\ asks["password"] = Null
        /\ asks["nickname"] = nickname /\ asks["contact"] = contact
    BY DEF Nothing, Asks
  <1>4. /\ copy.hash = accounts[u].hash
        /\ copy.nickname = IF nickname = Null THEN accounts[u].nickname ELSE nickname
        /\ copy.contact = IF contact = Null THEN accounts[u].contact ELSE contact
    BY <1>2 DEF Account
  <1>5. WillWrite(w, "profile", u, copy, asks) /\ UNCHANGED <<accounts, told, undone>>
    BY <1>1 DEF UpdateProfile
  <1> HIDE DEF copy, asks
  <1>6. \A c \in Column : Columns(copy)[c] =
          IF asks[c] = Null THEN Columns(accounts[u])[c] ELSE asks[c]
    BY <1>3, <1>4, ColumnByColumn
  <1> QED
    BY <1>2, <1>3, <1>5, <1>6, ReadingKeepsLast

LEMMA ChangePasswordKeepsLast ==
  ASSUME AccountInv, LastInv, NEW w \in Worker, NEW u \in User, NEW old \in Password,
         NEW new \in Password, ChangePassword(w, u, old, new)
  PROVE  LastInv'
  <1> DEFINE copy == [accounts[u] EXCEPT !.hash = [of |-> new, cost |-> "current"]]
             asks == [Nothing EXCEPT !.password = new]
  <1>1. accounts[u] \in Account /\ Exists(u) /\ new # Null
    BY NullAssumption DEF AccountInv, AccountTypes, ChangePassword, Exists
  <1>2. /\ asks \in Asks /\ asks["password"] = new
        /\ asks["nickname"] = Null /\ asks["contact"] = Null
    BY DEF Nothing, Asks
  <1>3. /\ copy.hash.of = new
        /\ copy.nickname = accounts[u].nickname /\ copy.contact = accounts[u].contact
    BY <1>1 DEF Account
  <1>4. WillWrite(w, "password", u, copy, asks) /\ UNCHANGED <<accounts, told, undone>>
    BY DEF ChangePassword
  <1> HIDE DEF copy, asks
  <1>5. \A c \in Column : Columns(copy)[c] =
          IF asks[c] = Null THEN Columns(accounts[u])[c] ELSE asks[c]
    BY <1>1, <1>2, <1>3, ColumnByColumn
  <1> QED
    BY <1>1, <1>2, <1>4, <1>5, ReadingKeepsLast

LEMMA TablesStay ==
  ASSUME AccountInv, LastInv, UNCHANGED <<accounts, history>>,
         \A v \in Worker : requests'[v] = requests[v] \/ requests'[v] = NoRequest
  PROVE  LastInv'
  <1>1. HistoryTypes' /\ LastChangeIsKept'
    BY DEF LastInv, HistoryTypes, LastChangeIsKept, Exists, history
  <1>2. ASSUME NEW v \in Worker, requests'[v].pc = "write"
        PROVE  UpToDate(v)'
    <2>1. requests'[v] = requests[v]
      BY <1>2, RowShapes
    <2>2. UpToDate(v)
      BY <1>2, <2>1 DEF LastInv
    <2> QED
      BY <2>1, <2>2 DEF UpToDate, history
  <1> QED
    BY <1>1, <1>2 DEF LastInv

LEMMA LoginKeepsLast ==
  ASSUME AccountInv, LastInv, NEW w \in Worker, NEW u \in User, NEW password \in Password,
         Login(w, u, password)
  PROVE  LastInv'
  <1>1. CASE WillWrite(w, "login", u, [accounts[u] EXCEPT !.hash.cost = "current"], Nothing)
    <2> DEFINE copy == [accounts[u] EXCEPT !.hash.cost = "current"]
    <2>1. accounts[u] \in Account /\ Exists(u)
      BY DEF AccountInv, AccountTypes, Login, Exists
    <2>2. /\ copy.hash.of = accounts[u].hash.of
          /\ copy.nickname = accounts[u].nickname /\ copy.contact = accounts[u].contact
      BY <2>1 DEF Account, Hash
    <2>3. WillWrite(w, "login", u, copy, Nothing) /\ UNCHANGED <<accounts, told, undone>>
      BY <1>1 DEF Login
    <2> HIDE DEF copy
    <2>4. \A c \in Column : Columns(copy)[c] =
            IF Nothing[c] = Null THEN Columns(accounts[u])[c] ELSE Nothing[c]
      BY <2>2, AskedValues, ColumnByColumn
    <2> QED
      BY <2>1, <2>3, <2>4, NothingAsked, ReadingKeepsLast
  <1>2. CASE UNCHANGED <<requests, since>>
    BY <1>2, TablesStay DEF Login, history
  <1> QED
    BY <1>1, <1>2 DEF Login

LEMMA RegisterKeepsLast ==
  ASSUME AccountInv, LastInv, NEW n \in StudentNo, NEW u \in User, NEW password \in Password,
         NEW nickname \in Nickname, NEW contact \in Contact \cup {Null},
         Register(n, u, password, nickname, contact)
  PROVE  LastInv'
  <1> DEFINE new == [password |-> password, nickname |-> nickname, contact |-> contact]
  <1>1. PICK cost \in Cost : accounts' = [accounts EXCEPT ![u] =
            [studentNo |-> n, hash |-> [of |-> password, cost |-> cost],
             nickname |-> nickname, contact |-> contact]]
    BY DEF Register
  <1>2. /\ told' = [told EXCEPT ![u] = new] /\ UNCHANGED <<requests, since, undone>>
        /\ ~Exists(u)
    BY DEF Register
  <1>3. /\ new \in [Column -> Value]
        /\ new["password"] = password /\ new["nickname"] = nickname /\ new["contact"] = contact
    BY AskedValues
  <1> HIDE DEF new
  <1>4. HistoryTypes'
    BY <1>2, <1>3 DEF LastInv, HistoryTypes
  <1>5. LastChangeIsKept'
    <2> SUFFICES ASSUME NEW v \in User, NEW c \in Column, Exists(v)', c \notin undone[v]
                 PROVE  Columns(accounts'[v])[c] = told'[v][c]
      BY <1>2 DEF LastChangeIsKept
    <2>1. CASE v = u
      <3>1. /\ accounts'[v].hash.of = password /\ accounts'[v].nickname = nickname
            /\ accounts'[v].contact = contact
        BY <1>1, <2>1 DEF AccountInv, AccountTypes
      <3>2. told'[v] = new
        BY <1>2, <2>1 DEF LastInv, HistoryTypes
      <3> QED
        BY <1>3, <3>1, <3>2, ColumnByColumn
    <2>2. CASE v # u
      <3>1. accounts'[v] = accounts[v] /\ told'[v] = told[v]
        BY <1>1, <1>2, <2>2 DEF AccountInv, AccountTypes, LastInv, HistoryTypes
      <3> QED
        BY <3>1 DEF LastInv, LastChangeIsKept, Exists
    <2> QED
      BY <2>1, <2>2
  <1>6. ASSUME NEW v \in Worker, requests'[v].pc = "write"
        PROVE  UpToDate(v)'
    <2>1. requests'[v] = requests[v] /\ UpToDate(v) /\ Exists(requests[v].user)
      BY <1>2, <1>6 DEF LastInv, AccountInv, CopiesAreOwn
    <2>2. requests[v].user # u /\ requests[v].user \in User
      BY <1>2, <1>6, <2>1, RowShapes DEF AccountInv, AccountTypes, PendingWrite
    <2>3. told'[requests[v].user] = told[requests[v].user]
      BY <1>2, <2>2 DEF LastInv, HistoryTypes
    <2> QED
      BY <1>2, <2>1, <2>3 DEF UpToDate
  <1> QED
    BY <1>4, <1>5, <1>6 DEF LastInv

(* A write keeps what it was told, and what it did not read too early.     *)
LEMMA WriteKeepsLast ==
  ASSUME AccountInv, LastInv, NEW w \in Worker, Write(w)
  PROVE  LastInv'
  <1> DEFINE u == requests[w].user
             copy == requests[w].copy
             asks == requests[w].asks
             after == [c \in Column |-> IF asks[c] = Null THEN told[u][c] ELSE asks[c]]
  <1>1. u \in User /\ asks \in Asks /\ UpToDate(w)
    BY RowShapes DEF AccountInv, AccountTypes, Write, PendingWrite, LastInv
  <1>2. /\ accounts' = [accounts EXCEPT ![u] = copy]
        /\ requests' = [requests EXCEPT ![w] = NoRequest]
        /\ undone' = [undone EXCEPT ![u] = (@ \cup since[w]) \ NamedBy(asks)]
    BY DEF Write
  <1>3. since' = [v \in Worker |-> IF requests[v].pc = "write" /\ requests[v].user = u
                                   THEN since[v] \cup NamedBy(asks) ELSE since[v]]
    BY DEF Write
  <1>4. told' = [told EXCEPT ![u] = after]
    BY DEF Write
  <1>5. after \in [Column -> Value]
    BY <1>1, AskedValues DEF LastInv, HistoryTypes
  <1>6. \A c \in Column :
          /\ asks[c] = Null => after[c] = told[u][c]
          /\ asks[c] # Null => after[c] = asks[c]
          /\ c \in NamedBy(asks) <=> asks[c] # Null
    BY DEF NamedBy
  <1>7. \A c \in Column :
          /\ asks[c] # Null => Columns(copy)[c] = asks[c]
          /\ asks[c] = Null /\ c \notin since[w] /\ c \notin undone[u] =>
               Columns(copy)[c] = told[u][c]
    BY <1>1 DEF UpToDate
  <1> HIDE DEF u, copy, asks, after
  <1>8. HistoryTypes'
    <2>1. NamedBy(asks) \subseteq Column
      BY DEF NamedBy
    <2> QED
      BY <1>1, <1>2, <1>3, <1>4, <1>5, <2>1 DEF LastInv, HistoryTypes
  <1>9. /\ told'[u] = after /\ undone'[u] = (undone[u] \cup since[w]) \ NamedBy(asks)
        /\ accounts'[u] = copy
        /\ \A v \in User \ {u} : /\ told'[v] = told[v] /\ undone'[v] = undone[v]
                                /\ accounts'[v] = accounts[v]
    BY <1>1, <1>2, <1>4 DEF LastInv, HistoryTypes, AccountInv, AccountTypes
  <1>10. LastChangeIsKept'
    <2> SUFFICES ASSUME NEW v \in User, NEW c \in Column, Exists(v)', c \notin undone'[v]
                 PROVE  Columns(accounts'[v])[c] = told'[v][c]
      BY DEF LastChangeIsKept
    <2>1. CASE v = u
      BY <1>6, <1>7, <1>9, <2>1
    <2>2. CASE v # u
      BY <1>9, <2>2 DEF LastInv, LastChangeIsKept, Exists
    <2> QED
      BY <2>1, <2>2
  <1>11. ASSUME NEW v \in Worker, requests'[v].pc = "write"
         PROVE  UpToDate(v)'
    <2>1. /\ requests'[v] = requests[v] /\ UpToDate(v) /\ requests[v].user \in User
          /\ requests[v].pc = "write"
      BY <1>2, <1>11, RowShapes DEF LastInv, AccountInv, AccountTypes, PendingWrite
    <2>2. CASE requests[v].user = u
      <3>1. since'[v] = since[v] \cup NamedBy(asks)
        BY <1>3, <2>1, <2>2
      <3> QED
        BY <1>6, <1>9, <2>1, <2>2, <3>1 DEF UpToDate
    <2>3. CASE requests[v].user # u
      <3>1. since'[v] = since[v]
        BY <1>3, <2>3
      <3> QED
        BY <1>9, <2>1, <2>3, <3>1 DEF UpToDate
    <2> QED
      BY <2>2, <2>3
  <1> QED
    BY <1>8, <1>10, <1>11 DEF LastInv

LEMMA FailKeepsLast ==
  ASSUME AccountInv, LastInv, NEW w \in Worker, Fail(w)
  PROVE  LastInv'
  <1>1. \A v \in Worker : requests'[v] = requests[v] \/ requests'[v] = NoRequest
    BY DEF Fail, AccountInv, AccountTypes
  <1> QED
    BY <1>1, TablesStay DEF Fail

LEMMA LastInductive == AccountInv /\ LastInv /\ [AccountNext]_accountVars => LastInv'
  <1> SUFFICES ASSUME AccountInv, LastInv, [AccountNext]_accountVars PROVE LastInv'
    OBVIOUS
  <1>1. CASE UNCHANGED accountVars
    BY <1>1, TablesStay DEF accountVars
  <1>2. CASE AccountNext
    BY <1>2, RegisterKeepsLast, UpdateProfileKeepsLast, ChangePasswordKeepsLast,
       LoginKeepsLast, WriteKeepsLast, FailKeepsLast DEF AccountNext
  <1> QED
    BY <1>1, <1>2

LEMMA LastInitially == AccountInit => LastInv
  BY RowShapes, AskedValues DEF AccountInit, LastInv, HistoryTypes, LastChangeIsKept, Exists

(* What an owner last changed stays, however requests about other columns  *)
(* or accounts overlap: only a request that had read the row before the    *)
(* change can bring an older value back, and the next change settles it.   *)
THEOREM ChangesLast == AccountSpec => []LastChangeIsKept
  <1>1. LastInv => LastChangeIsKept
    BY DEF LastInv
  <1> QED
    BY <1>1, AccountInitially, AccountInductive, LastInitially, LastInductive, PTL
    DEF AccountSpec
=============================================================================
