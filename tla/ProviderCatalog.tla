--------------------------- MODULE ProviderCatalog ---------------------------
(***************************************************************************)
(* PROVIDER_CATALOG: the providers `login add` knows, in the tiers of the  *)
(* table, with what decides whether an account can be added: how it        *)
(* authenticates and whether it has a default endpoint.  Names shown to    *)
(* the user are left out; a default endpoint is told by its scheme.        *)
(***************************************************************************)
EXTENDS FiniteSets, Naturals

CONSTANT NoEndpoint   \* endpoint: None

Majors ==
  {"opencode", "openai", "anthropic", "google", "github-copilot",
   "github-models", "azure", "amazon-bedrock", "vercel"}

Popular ==
  {"openrouter", "mistral", "groq", "deepseek", "xai", "cohere",
   "togetherai", "fireworks-ai", "perplexity", "huggingface", "nvidia",
   "cerebras", "perplexity-agent"}

Routers ==
  {"302ai", "ai-router", "aihubmix", "abacus", "requesty", "helicone",
   "novita-ai", "anyapi"}

Chinese ==
  {"alibaba", "alibaba-cn", "alibaba-coding-plan",
   "alibaba-coding-plan-cn", "alibaba-token-plan", "alibaba-token-plan-cn",
   "moonshotai", "moonshotai-cn", "zhipuai", "minimax", "stepfun",
   "stepfun-ai", "siliconflow", "siliconflow-cn", "modelscope", "bailing",
   "kimi-for-coding"}

LocalServers ==
  {"ollama", "lmstudio", "atomic-chat"}

Others ==
  {"ambient", "auriko", "azure-cognitive-services", "tinfoil"}

Clouds ==
  {"databricks", "cloudflare-ai-gateway", "cloudflare-workers-ai",
   "digitalocean", "scaleway", "vultr", "ovhcloud", "gitlab", "poe",
   "snowflake-cortex", "meta", "google-vertex", "google-vertex-anthropic",
   "opencode-go"}

Independent ==
  {"zai", "zai-coding-plan", "chutes", "deepinfra", "nebius", "baseten",
   "sakana", "upstage", "venice", "longcat", "morph"}

Plans ==
  {"zhipuai-coding-plan", "minimax-cn", "minimax-cn-coding-plan",
   "minimax-coding-plan", "tencent-coding-plan", "tencent-token-plan",
   "tencent-tokenhub", "stepfun-step-plan", "stepfun-ai-step-plan",
   "xiaomi", "xiaomi-token-plan-ams", "xiaomi-token-plan-cn",
   "xiaomi-token-plan-sgp", "kuae-cloud-coding-plan"}

Tiers == {Majors, Popular, Routers, Chinese, LocalServers, Others, Clouds,
          Independent, Plans}

Catalog == UNION Tiers

(* The endpoint depends on the account, so the user has to give one. *)
AccountSpecific ==
  {"azure", "amazon-bedrock", "cohere", "azure-cognitive-services", "databricks",
   "cloudflare-ai-gateway", "cloudflare-workers-ai", "gitlab", "snowflake-cortex",
   "google-vertex", "google-vertex-anthropic", "venice"}

(* AuthMethod, of an id of the catalog. *)
Auth(id) ==
  CASE id \in LocalServers -> "local"
    [] id \in Majors \cup {"google-vertex", "google-vertex-anthropic", "opencode-go"}
         -> "both"
    [] OTHER -> "api_key"

SupportsApiKey(auth) == auth \in {"api_key", "both", "local"}

(* None for an unknown id too. *)
DefaultEndpoint(id) ==
  CASE id \in LocalServers -> "http-localhost"
    [] id \in Catalog \ (LocalServers \cup AccountSpecific) -> "https"
    [] OTHER -> NoEndpoint

(* No id is in two tiers: a second entry would never be found by lookup. *)
ASSUME CatalogAssumption ==
  /\ \A s, t \in Tiers : s # t => s \cap t = {}
  /\ AccountSpecific \subseteq Catalog
  /\ NoEndpoint \notin {"https", "http-localhost"}
=============================================================================
