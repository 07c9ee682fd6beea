------------------------------ MODULE Settings ------------------------------
(***************************************************************************)
(* The settings (app/core/config.py): from the environment of the process, *)
(* a worker reads once, at import, whether it is in production, and with   *)
(* what it reaches its database; in production it refuses to start with    *)
(* some shipped defaults.                                                  *)
(***************************************************************************)

CONSTANT None   \* a variable that is not set

\* "unusable": empty, nothing but a comment, or the key pasted as the value.
\* "other": neither that nor a spelling of the two.  A DATABASE_URL is told by its
\* scheme, and an empty one counts as not set.  "shipped" is the default of the
\* class, and "radium" one that it is compared with.
Environment ==
    [APP_ENV                  : {None, "production", "development", "unusable", "other"},
     RENDER                   : BOOLEAN,
     SECRET_KEY               : {"shipped", "own"},
     DATABASE_URL             : {None, "postgres", "postgresql", "postgresql+asyncpg", "mysql"},
     POSTGRES_HOST            : {"localhost", "remote"},
     POSTGRES_PASSWORD        : {"shipped", "radium", "own"},
     FIRST_SUPERUSER_PASSWORD : {"shipped", "own"},
     TRUST_PROXY_HEADERS      : BOOLEAN]

\* Mistake: an unusable value is development wherever the process runs.
AppEnvAnywhere(env) ==
    IF env.APP_ENV = "other" THEN None
    ELSE IF env.APP_ENV = "production" THEN "production" ELSE "development"

\* _normalise_app_env, and the enum's error.  A variable that is not set leaves
\* the default, which is a proper value already.
AppEnv(env) ==
    IF env.APP_ENV = "other" THEN None
    ELSE IF env.APP_ENV = "production" \/ (env.APP_ENV = "unusable" /\ env.RENDER)
    THEN "production" ELSE "development"

\* _forbid_insecure_defaults_in_production.
Insecure(env) ==
    {s \in {"SECRET_KEY", "FIRST_SUPERUSER_PASSWORD"} : env[s] = "shipped"}
        \cup {s \in {"POSTGRES_PASSWORD"} : env.DATABASE_URL = None /\ env[s] = "radium"}
        \cup {s \in {"POSTGRES_HOST"} : env.DATABASE_URL = None /\ env[s] = "localhost"}

\* async_database_url, as far as its driver.
Driver(env) ==
    IF env.DATABASE_URL \in {None, "postgres", "postgresql"} THEN "postgresql+asyncpg"
    ELSE env.DATABASE_URL

\* Settings() raises nothing, and create_async_engine finds an async driver.
Imports(env) ==
    /\ AppEnv(env) # None
    /\ AppEnv(env) = "production" => Insecure(env) = {}
    /\ Driver(env) = "postgresql+asyncpg"
=============================================================================
