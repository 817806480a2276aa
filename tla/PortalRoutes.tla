---------------------------- MODULE PortalRoutes ----------------------------
(* The route handlers of the web portal (src/frontend/app/.../route.ts): what *)
(* each forwards to the backend, and how it hands the answer back.            *)
(*                                                                            *)
(* A definition stands for one route file and is the set of its handlers, one *)
(* per HTTP verb. A handler copies named parts of the browser's request into  *)
(* a request of its own; what it does not name is lost there. Paths are only  *)
(* names here: ":id" stands for the encoded path parameter, whatever the file *)
(* calls it.                                                                  *)

\* The query parameters some backend handler reads.
Keys == {"platform", "limit", "service_item_code", "tier_code", "from", "to",
         "distributor_user_id", "page", "per_page", "days", "group_id",
         "device_code", "session_id", "tag", "software", "version", "lang"}

\* A handler that parses the backend's answer and builds a new one from it.
Buffered(verb, path) ==
    [verb |-> verb, path |-> path, pass |-> "buffered", auth |-> TRUE, body |-> FALSE,
     query |-> {}, client |-> FALSE, caught |-> FALSE, needs |-> {}, base |-> TRUE]
\* A handler that hands the backend's body, status and headers through.
Streamed(verb, path) == [Buffered(verb, path) EXCEPT !.pass = "streamed"]
\* A handler that answers without calling anyone.
Local(verb, path) == [Buffered(verb, path) EXCEPT !.pass = "local"]

WithBody(h) == [h EXCEPT !.body = TRUE]             \* forwards the body
Anonymous(h) == [h EXCEPT !.auth = FALSE]           \* does not forward the token
ForClient(h) == [h EXCEPT !.client = TRUE]          \* forwards x-forwarded-for
Caught(h) == [h EXCEPT !.caught = TRUE]             \* catches a failing fetch
Unconfigured(h) == [h EXCEPT !.base = FALSE]        \* does not need the base URL
Query(h, keys) == [h EXCEPT !.query = keys]         \* forwards these parameters
Needs(h, inputs) == [h EXCEPT !.needs = inputs]     \* answers 4xx without them

\* Administration: every handler forwards the bearer token and re-encodes the answer.
AdminArticles ==
    {Buffered("GET", "admin/articles"),
     WithBody(Buffered("POST", "admin/articles"))}
AdminArticle ==
    {Buffered("GET", "admin/articles/:id"),
     WithBody(Buffered("PUT", "admin/articles/:id")),
     Buffered("DELETE", "admin/articles/:id")}
AdminArticlePublish == {Buffered("POST", "admin/articles/:id/publish")}
AdminArticleUnpublish == {Buffered("POST", "admin/articles/:id/unpublish")}
AdminDocCategories ==
    {Buffered("GET", "admin/docs/categories"),
     WithBody(Buffered("POST", "admin/docs/categories"))}
AdminDocCategory ==
    {Buffered("GET", "admin/docs/categories/:id"),
     WithBody(Buffered("PUT", "admin/docs/categories/:id")),
     Buffered("DELETE", "admin/docs/categories/:id")}
AdminDocCategoryPublish == {Buffered("POST", "admin/docs/categories/:id/publish")}
AdminDocCategoryUnpublish == {Buffered("POST", "admin/docs/categories/:id/unpublish")}
AdminDocPages ==
    {Buffered("GET", "admin/docs/pages"),
     WithBody(Buffered("POST", "admin/docs/pages"))}
AdminDocPage ==
    {Buffered("GET", "admin/docs/pages/:id"),
     WithBody(Buffered("PUT", "admin/docs/pages/:id")),
     Buffered("DELETE", "admin/docs/pages/:id")}
AdminDocPagePublish == {Buffered("POST", "admin/docs/pages/:id/publish")}
AdminDocPageUnpublish == {Buffered("POST", "admin/docs/pages/:id/unpublish")}
AdminSoftwares ==
    {Buffered("GET", "admin/config-center/software"),
     WithBody(Buffered("POST", "admin/config-center/software"))}
AdminSoftware ==
    {Buffered("GET", "admin/config-center/software/:id"),
     WithBody(Buffered("PUT", "admin/config-center/software/:id")),
     Buffered("DELETE", "admin/config-center/software/:id")}
AdminSoftwareTags == {WithBody(Buffered("POST", "admin/config-center/software/:id/tags"))}
AdminSoftwareTag == {Buffered("DELETE", "admin/config-center/software/:id/tags/:id")}
AdminSoftwareTemplates ==
    {Buffered("GET", "admin/config-center/software/:id/templates"),
     WithBody(Buffered("POST", "admin/config-center/software/:id/templates"))}
AdminTemplate ==
    {WithBody(Buffered("PUT", "admin/config-center/templates/:id")),
     Buffered("DELETE", "admin/config-center/templates/:id")}
AdminGlobalVars ==
    {Buffered("GET", "admin/config-center/global-vars"),
     WithBody(Buffered("POST", "admin/config-center/global-vars"))}
AdminGlobalVar == {Buffered("DELETE", "admin/config-center/global-vars/:id")}
AdminDownloads ==
    {Buffered("GET", "admin/download-center"),
     WithBody(Buffered("POST", "admin/download-center"))}
AdminDownload ==
    {Buffered("GET", "admin/download-center/:id"),
     WithBody(Buffered("PUT", "admin/download-center/:id")),
     Buffered("DELETE", "admin/download-center/:id")}
AdminServices ==
    {Buffered("GET", "admin/services"),
     WithBody(Buffered("POST", "admin/services"))}
AdminService ==
    {Buffered("GET", "admin/services/:id"),
     WithBody(Buffered("PUT", "admin/services/:id")),
     Buffered("DELETE", "admin/services/:id")}
AdminPackages ==
    {Buffered("GET", "admin/packages"),
     WithBody(Buffered("POST", "admin/packages"))}
AdminPackage ==
    {Buffered("GET", "admin/packages/:id"),
     WithBody(Buffered("PUT", "admin/packages/:id")),
     Buffered("DELETE", "admin/packages/:id")}
(* Variant for checking: the path of the customers' own endpoint.             *)
AdminReplay_NotAdmin == {Buffered("POST", "fulfillment/jobs/:id/replay")}

AdminReplay == {Buffered("POST", "admin/fulfillment/jobs/:id/replay")}
AdminGroups == {Query(Buffered("GET", "admin/groups/available"), {"platform"})}
(* Variant for checking: the handler forgets the parameter.                   *)
AdminPayments_NoLimit == {Buffered("GET", "admin/payments")}

AdminPayments == {Query(Buffered("GET", "admin/payments"), {"limit"})}
AdminUnitPrices ==
    {Needs(Query(Buffered("GET", "admin/unit-prices"), {"service_item_code", "tier_code"}), {"service_item_code"})}
AdminAssignPackage == {WithBody(Buffered("POST", "admin/users/assign-package"))}
AdminQuickCreate == {WithBody(Buffered("POST", "admin/users/quick-create"))}
AdminRole == {WithBody(Buffered("PUT", "admin/users/role"))}
AdminDistributorStats ==
    {Query(Buffered("GET", "admin/distributor/stats"), {"from", "to", "distributor_user_id"})}
AdminDistributorUsers ==
    {Query(Buffered("GET", "admin/distributor/users"), Keys),
     WithBody(Buffered("POST", "admin/distributor/users"))}
AdminCacheStats == {Query(Streamed("GET", "admin/cache-stats"), Keys)}
AdminRegisterSettings ==
    {Query(Streamed("GET", "admin/register-settings"), Keys),
     Query(WithBody(Streamed("PUT", "admin/register-settings")), Keys)}

\* Distributors.
DistributorAssign == {WithBody(Buffered("POST", "distributor/assign-package"))}
DistributorInvitations == {Query(Buffered("GET", "distributor/invitations"), Keys)}
DistributorPackages == {Buffered("GET", "distributor/packages")}
DistributorStats == {Query(Buffered("GET", "distributor/stats"), {"from", "to"})}
DistributorQuickCreate == {WithBody(Buffered("POST", "distributor/users/quick-create"))}
DistributorUsers == {Query(Buffered("GET", "distributor/users"), Keys)}

\* Accounts and sessions.
Login == {WithBody(Streamed("POST", "auth/login"))}
Logout == {WithBody(Streamed("POST", "auth/logout"))}
AuthMe == {Streamed("GET", "auth/me")}
Refresh == {WithBody(Streamed("POST", "auth/refresh"))}
RegisterCaptcha == {Anonymous(Streamed("GET", "auth/register-captcha"))}
RegisterOptions == {Anonymous(Streamed("GET", "auth/register/options"))}
Register == {ForClient(WithBody(Streamed("POST", "auth/register")))}
SendCode == {Anonymous(WithBody(Streamed("POST", "auth/register/send-code")))}
ScanInit == {Anonymous(WithBody(Streamed("POST", "auth/scan/init")))}
ScanStatus == {Query(Anonymous(Streamed("GET", "auth/scan/status")), Keys)}
VerifyEmail == {WithBody(Buffered("POST", "auth/verify-email"))}
UserMe == {Streamed("GET", "user/me")}
(* Variant for checking: the handler forgets the token.                       *)
Password_Anonymous == {Anonymous(WithBody(Buffered("PUT", "user/password")))}

Password == {WithBody(Buffered("PUT", "user/password"))}
UsersRoute == {WithBody(Buffered("POST", "users"))}

\* Keys, purchases and the dashboard.
ApiKeys ==
    {Query(Streamed("GET", "api-keys"), Keys),
     WithBody(Buffered("POST", "api-keys"))}
ApiKey ==
    {Needs(Streamed("GET", "api-keys/:id"), {"id"}),
     Needs(WithBody(Buffered("PUT", "api-keys/:id")), {"id"}),
     Needs(Buffered("DELETE", "api-keys/:id"), {"id"})}
EnsureAuto == {Buffered("POST", "api-keys/ensure-auto")}
Checkout == {WithBody(Buffered("POST", "checkout/package"))}
CheckoutStatus == {Query(Buffered("GET", "checkout/package/status"), {"session_id"})}
WalletRedeem == {Caught(WithBody(Buffered("POST", "wallet/redeem")))}
WalletTransactions == {Caught(Query(Buffered("GET", "wallet/transactions"), Keys))}
Subscription ==
    {Query(Streamed("GET", "subscription"), Keys),
     WithBody(Buffered("POST", "subscription"))}
SubscriptionsActive == {Streamed("GET", "subscriptions/active")}
SubscriptionsSummary == {Query(Streamed("GET", "subscriptions/summary"), Keys)}
DashboardAccount == {Query(Streamed("GET", "dashboard/account"), Keys)}
DashboardDetails == {Query(Streamed("GET", "dashboard/details"), Keys)}
DashboardHome == {Query(Streamed("GET", "dashboard/home"), Keys)}
DashboardModels == {Query(Streamed("GET", "dashboard/models"), Keys)}
DashboardTrend == {Query(Streamed("GET", "dashboard/trend"), Keys)}
DashboardUsage == {Query(Streamed("GET", "dashboard/usage"), Keys)}
Tickets ==
    {Needs(WithBody(Local("POST", "dashboard/tickets")), {"authorization", "title", "category", "message"})}
GroupsAvailable == {Query(Streamed("GET", "groups/available"), Keys)}
UsageStats == {Query(Streamed("GET", "usage/stats"), Keys)}

\* The user's synchronised configurations.
ConfigsCompare == {WithBody(Buffered("POST", "api/v1/configs/compare"))}
ConfigsDefault == {Query(Buffered("GET", "api/v1/configs/default"), {"tag"})}
ConfigsSoftware == {Buffered("GET", "api/v1/configs/software-list")}
ConfigsStatus == {Buffered("GET", "api/v1/configs/sync/status")}
ConfigsSynced == {Buffered("DELETE", "api/v1/configs/sync/:id")}
ConfigsSync == {WithBody(Buffered("POST", "api/v1/configs/sync"))}

\* Open to everyone.
Packages == {Anonymous(Buffered("GET", "public/packages"))}
PublicArticle == {Anonymous(Buffered("GET", "public/articles/:id"))}
PublicArticles == {Anonymous(Buffered("GET", "public/articles"))}
PublicDocs == {Anonymous(Buffered("GET", "public/docs/categories"))}
PublicDoc == {Anonymous(Buffered("GET", "public/docs/pages/:id"))}
PublicVersion ==
    {Query(Anonymous(Buffered("GET", "public/downloads/check")), {"platform", "software", "version"})}
PublicDownloads == {Query(Anonymous(Buffered("GET", "public/downloads")), {"platform"})}
PublicEstimate == {Anonymous(WithBody(Buffered("POST", "public/estimate")))}
PublicPayment == {Anonymous(Buffered("GET", "public/payment-config"))}
PublicServices == {Query(Anonymous(Buffered("GET", "public/services")), {"lang"})}
PublicTiers == {Anonymous(Buffered("GET", "public/tiers"))}
StripeWebhook == {Anonymous(WithBody(Streamed("POST", "webhooks/stripe")))}

\* Answered by the portal itself.
Health == {Unconfigured(Anonymous(Local("GET", "health")))}
RuntimeConfig == {Anonymous(Local("GET", "runtime-config"))}
Progress == {Unconfigured(Anonymous(Local("GET", "opensource/progress")))}
Models ==
    {Unconfigured(Caught(Needs(Streamed("GET", "gateway/v1/models"), {"x-api-key"})))}

\* Every handler of the portal.
Handlers ==
    AdminArticles \cup AdminArticle \cup AdminArticlePublish
    \cup AdminArticleUnpublish \cup AdminDocCategories \cup AdminDocCategory
    \cup AdminDocCategoryPublish \cup AdminDocCategoryUnpublish
    \cup AdminDocPages \cup AdminDocPage \cup AdminDocPagePublish
    \cup AdminDocPageUnpublish \cup AdminSoftwares \cup AdminSoftware
    \cup AdminSoftwareTags \cup AdminSoftwareTag \cup AdminSoftwareTemplates
    \cup AdminTemplate \cup AdminGlobalVars \cup AdminGlobalVar
    \cup AdminDownloads \cup AdminDownload \cup AdminServices \cup AdminService
    \cup AdminPackages \cup AdminPackage \cup AdminReplay \cup AdminGroups
    \cup AdminPayments \cup AdminUnitPrices \cup AdminAssignPackage
    \cup AdminQuickCreate \cup AdminRole \cup AdminDistributorStats
    \cup AdminDistributorUsers \cup AdminCacheStats \cup AdminRegisterSettings
    \cup DistributorAssign \cup DistributorInvitations
    \cup DistributorPackages \cup DistributorStats \cup DistributorQuickCreate
    \cup DistributorUsers \cup Login \cup Logout \cup AuthMe \cup Refresh
    \cup RegisterCaptcha \cup RegisterOptions \cup Register \cup SendCode
    \cup ScanInit \cup ScanStatus \cup VerifyEmail \cup UserMe \cup Password
    \cup UsersRoute \cup ApiKeys \cup ApiKey \cup EnsureAuto \cup Checkout
    \cup CheckoutStatus \cup WalletRedeem \cup WalletTransactions
    \cup Subscription \cup SubscriptionsActive \cup SubscriptionsSummary
    \cup DashboardAccount \cup DashboardDetails \cup DashboardHome
    \cup DashboardModels \cup DashboardTrend \cup DashboardUsage \cup Tickets
    \cup GroupsAvailable \cup UsageStats \cup ConfigsCompare
    \cup ConfigsDefault \cup ConfigsSoftware \cup ConfigsStatus
    \cup ConfigsSynced \cup ConfigsSync \cup Packages \cup PublicArticle
    \cup PublicArticles \cup PublicDocs \cup PublicDoc \cup PublicVersion
    \cup PublicDownloads \cup PublicEstimate \cup PublicPayment
    \cup PublicServices \cup PublicTiers \cup StripeWebhook \cup Health
    \cup RuntimeConfig \cup Progress \cup Models
=============================================================================
