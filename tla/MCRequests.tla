----------------------------- MODULE MCRequests -----------------------------
(* Requests with every endpoint, and a role of each kind that the guards tell apart. *)
EXTENDS Requests

MCRole == {"USER", "BREEDER", "MODERATOR", "ADMIN"}
MCRoute == {"refresh", "logout", "whoami", "operatorCheck", "devToken", "registerPhone", "verifyPhone", "oauth",
            "recoverEmailRequest", "recoverEmailVerify", "getMe", "updateMe", "deactivate", "reactivate", "eraseMe",
            "setRole", "rebind", "eraseUser", "list", "form", "getById", "create", "update", "toggleActive",
            "live", "ready", "scrape"}
=============================================================================
