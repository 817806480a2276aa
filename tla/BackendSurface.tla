--------------------------- MODULE BackendSurface ---------------------------
(* The endpoints the backend registers (httpapi/routes.go, RegisterRoutes) for *)
(* the portal, by what they demand of the caller. The /api/... aliases for the *)
(* phone and desktop clients are left out: the portal never calls them.        *)

On(verb, paths) == {<<verb, p>> : p \in paths}

\* Answered to anyone, or checked inside the handler.
Open ==
    On("GET",
        {"auth/scan/status", "auth/register-captcha", "auth/register/options", "auth/me",
         "public/tiers", "public/articles", "public/articles/:id",
         "public/packages", "public/payment-config", "public/docs/categories",
         "public/docs/pages/:id", "public/downloads/check", "public/downloads",
         "public/services"})
    \cup On("POST",
        {"auth/scan/init", "auth/register", "auth/register/send-code", "auth/login",
         "auth/refresh", "auth/logout", "auth/verify-email",
         "auth/forgot-password", "auth/reset-password", "webhooks/stripe",
         "public/estimate"})

\* Behind the session check of internal/auth.
SignedIn ==
    On("GET",
        {"user/me", "wallet", "wallet/transactions", "checkout/package/status",
         "fulfillment/jobs/:id", "profiles", "profiles/:id", "sessions",
         "api/v1/configs/default", "api/v1/configs/sync",
         "api/v1/configs/software-list", "api/v1/configs/sync/status"})
    \cup On("POST",
        {"auth/scan/scan", "auth/scan/confirm", "auth/scan/deny", "user/password",
         "wallet/redeem", "profiles", "subscription", "checkout/package",
         "api/v1/configs/sync", "api/v1/configs/compare"})
    \cup On("PUT",
        {"user/me", "user/password", "profiles/:id"})
    \cup On("DELETE",
        {"profiles/:id", "session", "api/v1/configs/sync/:id"})

\* Behind the session check and the role check.
AdminOnly ==
    On("GET",
        {"admin/register-settings", "admin/cache-stats", "admin/unit-prices",
         "admin/distributor/users", "admin/distributor/stats",
         "admin/fulfillment/jobs/:id", "admin/groups/available",
         "admin/packages", "admin/packages/:id", "admin/payments",
         "admin/articles", "admin/articles/:id", "admin/docs/categories",
         "admin/docs/categories/:id", "admin/docs/pages",
         "admin/docs/pages/:id", "admin/config-center/software",
         "admin/config-center/software/:id",
         "admin/config-center/software/:id/templates",
         "admin/config-center/global-vars", "admin/download-center",
         "admin/download-center/:id", "admin/services", "admin/services/:id"})
    \cup On("POST",
        {"users", "admin/fulfillment/payment-success", "admin/users/quick-create",
         "admin/distributor/users", "admin/users/assign-package",
         "admin/fulfillment/jobs/:id/replay", "admin/packages",
         "admin/articles", "admin/articles/:id/publish",
         "admin/articles/:id/unpublish", "admin/docs/categories",
         "admin/docs/categories/:id/publish",
         "admin/docs/categories/:id/unpublish", "admin/docs/pages",
         "admin/docs/pages/:id/publish", "admin/docs/pages/:id/unpublish",
         "admin/config-center/software",
         "admin/config-center/software/:id/tags",
         "admin/config-center/software/:id/templates",
         "admin/config-center/global-vars", "admin/download-center",
         "admin/services"})
    \cup On("PUT",
        {"admin/register-settings", "admin/unit-prices", "admin/users/role",
         "admin/packages/:id", "admin/articles/:id",
         "admin/docs/categories/:id", "admin/docs/pages/:id",
         "admin/config-center/software/:id",
         "admin/config-center/templates/:id", "admin/download-center/:id",
         "admin/services/:id"})
    \cup On("DELETE",
        {"admin/unit-prices", "admin/packages/:id", "admin/articles/:id",
         "admin/docs/categories/:id", "admin/docs/pages/:id",
         "admin/config-center/software/:id",
         "admin/config-center/software/:id/tags/:id",
         "admin/config-center/templates/:id",
         "admin/config-center/global-vars/:id", "admin/download-center/:id",
         "admin/services/:id"})

DistributorOnly ==
    On("GET",
        {"distributor/users", "distributor/invitations", "distributor/packages",
         "distributor/stats"})
    \cup On("POST",
        {"distributor/users/quick-create", "distributor/assign-package"})

\* Registered only when an upstream gateway is configured; all of them want the
\* caller's token.
ByGateway ==
    On("GET",
        {"dashboard/home", "dashboard/details", "dashboard/trend", "dashboard/models",
         "dashboard/usage", "subscription", "dashboard/account", "api-keys",
         "api-keys/:id", "groups/available", "subscriptions/summary",
         "subscriptions/active", "subscriptions/all", "redeem/history",
         "usage/stats"})
    \cup On("POST",
        {"api-keys", "api-keys/ensure-auto"})
    \cup On("PUT",
        {"api-keys/:id"})
    \cup On("DELETE",
        {"api-keys/:id"})

\* What is registered in their place when none is.
WithoutGateway ==
    On("GET",
        {"subscription"})
    \cup On("POST",
        {"api-keys"})
    \cup On("DELETE",
        {"api-keys/:id"})

\* The AI gateway, another service, is reached for the list of models.
Elsewhere == {<<"GET", "gateway/v1/models">>}

\* Every endpoint there is, with and without the upstream gateway.
Registered(gateway) ==
    Open \cup SignedIn \cup AdminOnly \cup DistributorOnly \cup Elsewhere
        \cup (IF gateway THEN ByGateway ELSE WithoutGateway)

\* The endpoints that refuse a caller without a token.
Guarded == (SignedIn \cup AdminOnly \cup DistributorOnly \cup ByGateway \cup WithoutGateway
            \cup {<<"GET", "auth/me">>})

\* The query parameters an endpoint reads.
Reads(endpoint) ==
    CASE endpoint[2] \in {"admin/payments", "wallet/transactions"} -> {"limit"}
      [] endpoint[2] = "admin/groups/available" -> {"platform"}
      [] endpoint[2] = "admin/unit-prices" -> {"service_item_code", "tier_code"}
      [] endpoint[2] = "admin/distributor/stats" -> {"from", "to", "distributor_user_id"}
      [] endpoint[2] = "distributor/stats" -> {"from", "to"}
      [] endpoint \in {<<"GET", "admin/distributor/users">>, <<"GET", "distributor/users">>,
                       <<"GET", "distributor/invitations">>} -> {"page", "per_page"}
      [] endpoint[2] = "admin/cache-stats" -> {"days", "group_id"}
      [] endpoint[2] = "auth/scan/status" -> {"device_code"}
      [] endpoint[2] = "checkout/package/status" -> {"session_id"}
      [] endpoint[2] = "api/v1/configs/default" -> {"tag"}
      [] endpoint[2] = "public/downloads/check" -> {"platform", "software", "version"}
      [] endpoint[2] = "public/downloads" -> {"platform"}
      [] endpoint[2] = "public/services" -> {"lang"}
      [] OTHER -> {}

\* The endpoints that charge a rate limit to the caller's address.
Metered == On("POST", {"auth/register", "auth/register/send-code"})
=============================================================================
