------------------------------- MODULE Contract -------------------------------
(***************************************************************************)
(* The public interface of the system as the Gateway's router, limiter,    *)
(* error tables and request decoders define it: which endpoints there are, *)
(* which of them need a token or count against a limit, and how an error   *)
(* of any service becomes an HTTP status.  Endpoints have the operation    *)
(* identifiers of the API description.                                     *)
(***************************************************************************)
EXTENDS Naturals, Sequences

AuthEndpoint == {"registerUser", "loginUser", "logoutUser"}
UserEndpoint == {"getCurrentUser", "updateCurrentUser", "changeCurrentUserPassword",
                 "getUserProfile", "listCurrentUserProducts", "listUserProducts"}
ProductEndpoint == {"listProducts", "createProduct", "getProduct", "updateProduct",
                    "addProductImages", "deleteProductImage", "offShelfProduct",
                    "relistProduct", "listProductComments", "createProductComment"}
TradeEndpoint == {"createTrade", "listTrades", "getTrade", "acceptTrade", "rejectTrade",
                  "cancelTrade", "confirmTrade", "createTradeReview"}
FavoriteEndpoint == {"listFavorites", "addFavorite", "removeFavorite"}
MessagingEndpoint == {"getOrCreateProductConversation", "listConversations",
                      "getConversationUnreadCount", "listConversationMessages",
                      "sendConversationMessage", "markConversationRead"}

Endpoint == AuthEndpoint \cup UserEndpoint \cup ProductEndpoint \cup TradeEndpoint
              \cup FavoriteEndpoint \cup MessagingEndpoint

(* Endpoints that work without a token. *)
Public == {"registerUser", "loginUser"}

(* Classes of requests that share a limit; the others are not limited.     *)
RuleOf(ep) ==
  CASE ep = "registerUser" -> "register"
    [] ep = "loginUser" -> "login"
    [] ep \in {"createProduct", "addProductImages"} -> "upload"
    [] ep \in {"sendConversationMessage", "createProductComment"} -> "message"
    [] ep \in {"createTrade", "acceptTrade", "rejectTrade", "cancelTrade",
               "confirmTrade", "createTradeReview"} -> "trade"
    [] OTHER -> "none"

(* Bodies: JSON, a form with files, or one that is not read at all.        *)
FormBody == {"createProduct", "addProductImages"}
OptionalBody == {"createTrade"}
JSONBody == OptionalBody \cup
  {"registerUser", "loginUser", "updateCurrentUser", "changeCurrentUserPassword",
   "updateProduct", "createProductComment", "rejectTrade", "cancelTrade",
   "createTradeReview", "sendConversationMessage", "markConversationRead"}

-----------------------------------------------------------------------------
(* Errors. *)

(* gRPC status and HTTP status of each error code. *)
GrpcOf ==
  [VALIDATION_ERROR |-> "InvalidArgument", CONTACT_REQUIRED |-> "FailedPrecondition",
   IMAGE_LIMIT_EXCEEDED |-> "FailedPrecondition", PAYLOAD_TOO_LARGE |-> "InvalidArgument",
   UNAUTHORIZED |-> "Unauthenticated", FORBIDDEN |-> "PermissionDenied",
   RESOURCE_NOT_FOUND |-> "NotFound", STUDENT_NO_EXISTS |-> "AlreadyExists",
   PRODUCT_NOT_AVAILABLE |-> "FailedPrecondition", TRADE_STATE_CONFLICT |-> "Aborted",
   PRODUCT_STATE_CONFLICT |-> "FailedPrecondition",
   CONVERSATION_MISMATCH |-> "FailedPrecondition",
   SELF_ACTION_NOT_ALLOWED |-> "FailedPrecondition",
   TRADE_REVIEW_ALREADY_EXISTS |-> "AlreadyExists", RATE_LIMITED |-> "ResourceExhausted",
   INTERNAL_ERROR |-> "Internal"]

HttpStatus ==
  [VALIDATION_ERROR |-> 400, CONTACT_REQUIRED |-> 400, IMAGE_LIMIT_EXCEEDED |-> 400,
   UNAUTHORIZED |-> 401, FORBIDDEN |-> 403, RESOURCE_NOT_FOUND |-> 404,
   STUDENT_NO_EXISTS |-> 409, PRODUCT_NOT_AVAILABLE |-> 409,
   PRODUCT_STATE_CONFLICT |-> 409, TRADE_STATE_CONFLICT |-> 409,
   CONVERSATION_MISMATCH |-> 409, SELF_ACTION_NOT_ALLOWED |-> 409,
   TRADE_REVIEW_ALREADY_EXISTS |-> 409, PAYLOAD_TOO_LARGE |-> 413,
   RATE_LIMITED |-> 429, INTERNAL_ERROR |-> 500]

Code == DOMAIN GrpcOf
(* Mutant: what may not be done with one's own product is forbidden.       *)
StatusForbidden(code) ==
  IF code = "SELF_ACTION_NOT_ALLOWED" THEN 403
  ELSE IF code \in DOMAIN HttpStatus THEN HttpStatus[code] ELSE 500

StatusFor(code) == IF code \in DOMAIN HttpStatus THEN HttpStatus[code] ELSE 500

(* What crosses a service boundary: the gRPC status, and the code in its   *)
(* details unless the error did not come from a service of this system.    *)
NoDetail == "none"
Wire(code) == [grpc |-> GrpcOf[code], detail |-> code]
Raw(grpc) == [grpc |-> grpc, detail |-> NoDetail]

(* The code of an error that comes without details. *)
FallbackCode(grpc) ==
  CASE grpc \in {"InvalidArgument", "OutOfRange"} -> "VALIDATION_ERROR"
    [] grpc = "Unauthenticated" -> "UNAUTHORIZED"
    [] grpc = "PermissionDenied" -> "FORBIDDEN"
    [] grpc = "NotFound" -> "RESOURCE_NOT_FOUND"
    [] grpc = "AlreadyExists" -> "STUDENT_NO_EXISTS"
    [] grpc = "Aborted" -> "TRADE_STATE_CONFLICT"
    [] OTHER -> "INTERNAL_ERROR"

CodeOf(err) == IF err.detail \in Code THEN err.detail ELSE FallbackCode(err.grpc)

-----------------------------------------------------------------------------
(* The statuses the API description declares.  Every endpoint declares     *)
(* 500, every endpoint with a token 401, every limited endpoint 429.       *)

DeclaredSuccess(ep) ==
  CASE ep = "createTrade" -> {200, 201}
    [] ep \in {"registerUser", "createProduct", "addProductImages", "createProductComment",
               "createTradeReview", "sendConversationMessage"} -> {201}
    [] OTHER -> {200}

Declares400 ==
  {"registerUser", "loginUser", "updateCurrentUser", "changeCurrentUserPassword",
   "listCurrentUserProducts", "listProducts", "createProduct", "updateProduct",
   "addProductImages", "createProductComment", "createTrade", "listTrades", "rejectTrade",
   "cancelTrade", "createTradeReview", "listFavorites", "addFavorite",
   "getOrCreateProductConversation", "listConversations", "listConversationMessages",
   "sendConversationMessage", "markConversationRead"}

Declares403 ==
  {"updateProduct", "addProductImages", "deleteProductImage", "offShelfProduct",
   "relistProduct", "acceptTrade", "rejectTrade", "cancelTrade", "createTradeReview"}

Declares404 ==
  (ProductEndpoint \ {"listProducts", "createProduct"})
    \cup (TradeEndpoint \ {"listTrades"})
    \cup {"getUserProfile", "listUserProducts", "addFavorite", "removeFavorite",
          "getOrCreateProductConversation", "listConversationMessages",
          "sendConversationMessage", "markConversationRead"}

Declares409 ==
  {"registerUser", "updateProduct", "addProductImages", "deleteProductImage",
   "offShelfProduct", "relistProduct", "createTrade", "acceptTrade", "rejectTrade",
   "cancelTrade", "confirmTrade", "createTradeReview", "addFavorite",
   "getOrCreateProductConversation", "sendConversationMessage"}

Declared(ep) ==
  DeclaredSuccess(ep) \cup {500}
    \cup (IF ep = "registerUser" THEN {} ELSE {401})
    \cup (IF RuleOf(ep) # "none" THEN {429} ELSE {})
    \cup (IF ep \in FormBody THEN {413} ELSE {})
    \cup (IF ep \in Declares400 THEN {400} ELSE {})
    \cup (IF ep \in Declares403 THEN {403} ELSE {})
    \cup (IF ep \in Declares404 THEN {404} ELSE {})
    \cup (IF ep \in Declares409 THEN {409} ELSE {})

(* What it leaves out: the limit on JSON bodies, and malformed queries,    *)
(* keys and identifiers of some endpoints.                                 *)
UndeclaredStatus(ep) ==
  (IF ep \in JSONBody THEN {413} ELSE {})
    \cup (IF ep \in {"listUserProducts", "listProductComments", "acceptTrade",
                     "confirmTrade", "removeFavorite"} THEN {400} ELSE {})
=============================================================================
