------------------------------ MODULE Interface ------------------------------
(***************************************************************************)
(* The three front ends side by side: the REST routers, the gRPC servicers *)
(* and the commands of the CLI.  What an operation does to the state is in *)
(* the other modules; here is what decides whether a request gets that far *)
(* and whether its answer can be built: the fields a schema requires and   *)
(* the fields a caller gives, the fields an answer reads and the ones its  *)
(* source has, the rows a read selects, and the bounds of a page.          *)
(*                                                                         *)
(* A field is its name.  Values, formats and wording are left out.  The    *)
(* endpoints of a router are named by the function of cli/api that calls   *)
(* them.                                                                   *)
(***************************************************************************)
EXTENDS Integers, SequencesExt

Roles == {"EMETTEUR", "TRADER", "CUSTODIAN", "REGULATEUR", "AUDITEUR",
          "COMPLIANCE_OFFICER", "SUPER_ADMIN"}

(* An endpoint: its method, the roles it admits, the fields it must be     *)
(* given in the body or the query, the optional ones, and for a list the   *)
(* default and the greatest limit of a page (0 for the others).            *)
Endpoint(method, roles, required, optional) ==
  [method |-> method, roles |-> roles, required |-> required,
   optional |-> optional, default |-> 0, max |-> 0]
GetFor(roles) == Endpoint("GET", roles, {}, {})
PostFor(roles, required, optional) == Endpoint("POST", roles, required, optional)
Paged == {"limit", "offset"}
ListFor(roles, filters, default, max) ==
  [Endpoint("GET", roles, {}, Paged \cup filters)
     EXCEPT !.default = default, !.max = max]

-----------------------------------------------------------------------------
(* The request schemas: their fields without a default.                    *)
TokenizeRequest ==
  {"asset_id", "isin", "asset_type", "asset_name", "issuer_lei",
   "nominal_value", "currency", "issuance_date", "justification"}
TransferRequest == {"asset_id", "to_owner", "price", "justification"}
FreezeRequest == {"asset_id", "reason", "regulatory_ref"}
UnfreezeRequest == {"asset_id", "justification"}
SetupKeyRequest == {"public_key_x", "public_key_y"}
ProofRequest ==
  SetupKeyRequest \cup
  {"proof_Rx", "proof_Ry", "proof_s", "purpose", "context", "nullifier",
   "credential_claim", "credential_sig"}

assetsRouter ==
  [tokenize |-> PostFor({"EMETTEUR", "SUPER_ADMIN"}, TokenizeRequest, {}),
   transfer |-> PostFor({"EMETTEUR", "TRADER", "CUSTODIAN"}, TransferRequest, {}),
   freeze |-> PostFor({"REGULATEUR", "SUPER_ADMIN"}, FreezeRequest, {}),
   unfreeze |-> PostFor({"REGULATEUR", "SUPER_ADMIN"}, UnfreezeRequest, {}),
   valuate |->
     PostFor({"COMPLIANCE_OFFICER", "SUPER_ADMIN", "EMETTEUR"}, {"current_value"},
             {"yield_to_maturity", "duration", "convexity", "credit_spread_bps",
              "pricing_source", "valuation_date"}),
   get |-> GetFor(Roles), history |-> GetFor(Roles), valuations |-> GetFor(Roles),
   list_assets |-> ListFor(Roles, {"status", "asset_type", "owner"}, 10, 100)]

complianceRouter ==
  [summary |-> ListFor(Roles \ {"TRADER", "CUSTODIAN"}, {}, 50, 200),
   alerts |-> ListFor({"COMPLIANCE_OFFICER", "REGULATEUR", "EMETTEUR"}, {}, 50, 200),
   user_status |-> GetFor({"COMPLIANCE_OFFICER", "REGULATEUR"}),
   kyc_submit |-> PostFor({"COMPLIANCE_OFFICER"},
                          {"user_id", "document_type", "file_hash"},
                          {"document_number", "issuing_country"}),
   kyc_approve |-> PostFor({"COMPLIANCE_OFFICER"}, {"user_id", "level"},
                           {"validity_days", "notes"}),
   screening_run |-> PostFor({"COMPLIANCE_OFFICER"},
                             {"user_id", "amount", "counterparty_id"}, {})]

auditRouter ==
  [list_log |-> ListFor(Roles, {}, 50, 200),
   asset_trail |-> GetFor({"AUDITEUR", "REGULATEUR"}),
   generate_report |-> PostFor({"AUDITEUR"}, {}, {}),
   report_status |-> GetFor({"AUDITEUR"}),
   fraud_scan |-> PostFor({"COMPLIANCE_OFFICER", "REGULATEUR", "SUPER_ADMIN"}, {}, {})]

agentRouter ==
  [chat |-> PostFor(Roles, {"message"},
                    {"history", "stream", "temperature", "max_tokens", "top_p",
                     "frequency_penalty", "presence_penalty", "n_results",
                     "use_rag", "style_preset"}),
   reindex |-> PostFor({"SUPER_ADMIN", "COMPLIANCE_OFFICER", "AUDITEUR"}, {}, {}),
   search |-> Endpoint("GET", Roles, {"query"}, {"n"}),
   status |-> GetFor(Roles)]

organizationsRouter ==
  [list_orgs |-> ListFor(Roles, {}, 50, 200),
   list_users |-> ListFor({"REGULATEUR", "COMPLIANCE_OFFICER", "SUPER_ADMIN", "AUDITEUR"},
                          {"role", "country"}, 100, 500),
   portfolio |-> GetFor(Roles)]

transactionsRouter ==
  [list_tx |-> ListFor(Roles, {"tx_type", "org_id", "regulatory_flag"}, 50, 200),
   stats |-> GetFor(Roles), get |-> GetFor(Roles)]

tribunalRouter ==
  [vote_commit |-> PostFor({"AUDITEUR"}, {"session_id", "commit_hash"}, {}),
   vote_reveal |-> PostFor({"AUDITEUR"}, {"vote_id", "vote", "salt"}, {}),
   tally |-> PostFor({"COMPLIANCE_OFFICER", "REGULATEUR"}, {}, {})]

zkpRouter ==
  [setup_key |-> PostFor(Roles, SetupKeyRequest, {}),
   verify |-> PostFor(Roles, ProofRequest, {}),
   status |-> GetFor(Roles),
   revoke |-> PostFor(Roles, {}, {"reason"})]

accountRouter ==
  [me |-> GetFor(Roles), me_export |-> GetFor(Roles),
   me_delete |-> Endpoint("DELETE", Roles, {}, {})]

-----------------------------------------------------------------------------
(* What each command of the CLI sends: the fields of the body or query.    *)
assetsCommands ==
  [tokenize |-> TokenizeRequest, transfer |-> TransferRequest,
   freeze |-> FreezeRequest, unfreeze |-> UnfreezeRequest,
   valuate |-> {"value", "source"}, get |-> {}, history |-> {},
   valuations |-> {}, list_assets |-> Paged \cup {"status", "asset_type"}]
complianceCommands ==
  [summary |-> {}, alerts |-> {}, user_status |-> {},
   kyc_submit |-> {"user_id", "document_hash", "document_type"},
   kyc_approve |-> {"submission_id", "decision", "notes"},
   screening_run |-> {"user_id", "full_name"}]
auditCommands ==
  [list_log |-> Paged \cup {"actor"}, asset_trail |-> {},
   generate_report |-> {}, report_status |-> {},
   fraud_scan |-> {"user_id", "depth"}]
agentCommands ==
  [chat |-> {"message", "stream"}, reindex |-> {},
   search |-> {"query", "top_k"}, status |-> {}]
organizationsCommands ==
  [list_orgs |-> {}, list_users |-> {"role", "country"}, portfolio |-> {}]
transactionsCommands ==
  [list_tx |-> Paged \cup {"asset_id"}, stats |-> {}, get |-> {}]
tribunalCommands ==
  [vote_commit |-> {"session_id", "commitment"},
   vote_reveal |-> {"session_id", "vote", "nonce"}, tally |-> {}]
zkpCommands ==
  [setup_key |-> {"user_id"}, verify |-> {"credential_id", "proof"},
   status |-> {}, revoke |-> {}]
accountCommands == [me |-> {}, me_export |-> {}, me_delete |-> {}]

(* The calls that lack a field the endpoint requires (FastAPI answers 422) *)
(* and those that send one it does not know (which it passes over).        *)
Rejected(router, commands) ==
  {f \in DOMAIN router : ~(router[f].required \subseteq commands[f])}
PassedOver(router, commands) ==
  {f \in DOMAIN router :
     ~(commands[f] \subseteq router[f].required \cup router[f].optional)}

(* The same limit option on the three commands that have one.              *)
CliMaxLimit == 500
LimitsRefused(router, commands) ==
  {f \in DOMAIN router : "limit" \in commands[f] /\ router[f].max < CliMaxLimit}

-----------------------------------------------------------------------------
(* gRPC: the fields that a servicer gives to the schema of the REST body.  *)
Built(schema, given) == [schema |-> schema, given |-> given]
assetsServicer ==
  [TokenizeAsset |->
     Built(TokenizeRequest, {"asset_id", "asset_type", "isin", "lei", "currency",
                             "face_value", "owner", "metadata"}),
   TransferAsset |-> Built(TransferRequest, {"asset_id", "new_owner", "amount"}),
   FreezeAsset |-> Built(FreezeRequest, {"asset_id", "reason"}),
   UnfreezeAsset |-> Built(UnfreezeRequest, {"asset_id", "reason"})]
Unbuilt(servicer) ==
  {f \in DOMAIN servicer : ~(servicer[f].schema \subseteq servicer[f].given)}

(* The reads and triggers of the servicers, named as in the routers: the   *)
(* roles admitted, the filters besides limit and offset, and the page that *)
(* an unset limit stands for (proto3 reads an unset number as 0).          *)
Rpc(roles, filters, default) ==
  [roles |-> roles, filters |-> filters, default |-> default]
ReadRpc == Rpc(Roles, {}, 0)
assetsReads ==
  [get |-> ReadRpc, history |-> ReadRpc, valuations |-> ReadRpc,
   list_assets |-> Rpc(Roles, {"status", "asset_type", "owner"}, 10)]
complianceReads ==
  [summary |-> Rpc(Roles, {}, 50), alerts |-> Rpc(Roles, {}, 50),
   user_status |-> ReadRpc]
auditServicer ==
  [list_log |-> Rpc(Roles, {}, 50), asset_trail |-> ReadRpc,
   generate_report |-> ReadRpc, report_status |-> ReadRpc, fraud_scan |-> ReadRpc]
agentReads ==
  [reindex |-> Rpc({"SUPER_ADMIN", "COMPLIANCE_OFFICER", "AUDITEUR"}, {}, 0),
   search |-> Rpc(Roles, {"query", "n"}, 0), status |-> ReadRpc]
organizationsServicer ==
  [list_orgs |-> Rpc(Roles, {}, 50),
   list_users |-> Rpc({"REGULATEUR", "COMPLIANCE_OFFICER", "SUPER_ADMIN", "AUDITEUR"},
                      {"role", "country"}, 100),
   portfolio |-> ReadRpc]
transactionsServicer ==
  [list_tx |-> Rpc(Roles, {"tx_type", "regulatory_flag"}, 50),
   stats |-> ReadRpc, get |-> ReadRpc]

(* The operations whose filters or unset limit differ from the router's.   *)
Differ(router, servicer) ==
  {f \in DOMAIN servicer :
     \/ servicer[f].default # router[f].default
     \/ servicer[f].filters # (router[f].required \cup router[f].optional) \ Paged}

-----------------------------------------------------------------------------
(* Answers: the fields that an answer must find, and the fields of what it *)
(* is built from: a row, or a JSON object of the chaincode whose keys      *)
(* evaluate_transaction has converted from camel to snake case.            *)
AssetKeys ==
  {"assetID", "isin", "assetType", "assetName", "issuerMSP", "issuerLEI",
   "currentOwner", "nominalValue", "currentValue", "currency", "status",
   "issuanceDate", "maturityDate", "couponRate", "ratingMoodys", "frozenBy",
   "frozenAt", "frozenReason", "regulatoryRef", "totalTransfers", "provenance"}
ProvenanceKeys ==
  {"txID", "timestamp", "actorMSP", "actorDN", "action", "fromOwner", "toOwner",
   "amount", "justification"}

Snake ==
  [assetID |-> "asset_id", assetType |-> "asset_type", assetName |-> "asset_name",
   issuerMSP |-> "issuer_msp", issuerLEI |-> "issuer_lei",
   currentOwner |-> "current_owner", nominalValue |-> "nominal_value",
   currentValue |-> "current_value", issuanceDate |-> "issuance_date",
   maturityDate |-> "maturity_date", couponRate |-> "coupon_rate",
   ratingMoodys |-> "rating_moodys", frozenBy |-> "frozen_by",
   frozenAt |-> "frozen_at", frozenReason |-> "frozen_reason",
   regulatoryRef |-> "regulatory_ref", totalTransfers |-> "total_transfers",
   txID |-> "tx_id", actorMSP |-> "actor_msp", actorDN |-> "actor_dn",
   fromOwner |-> "from_owner", toOwner |-> "to_owner"]
_convert_keys(keys) == {IF k \in DOMAIN Snake THEN Snake[k] ELSE k : k \in keys}

AssetResponse ==
  {"asset_id", "asset_type", "asset_name", "issuer_org_id", "current_owner_id",
   "nominal_value", "current_value", "currency", "status", "issuance_date"}
AssetResponseFields ==
  AssetResponse \cup {"isin", "fabric_tx_id", "fabric_block_number"}
ProvenanceRecord == {"txID", "timestamp", "actorMSP", "actorDN", "action"}
ValuationResponse == {"asset_id", "valuation_date", "nav"}
TransactionResponse ==
  {"id", "tx_ref", "tx_type", "asset_id", "initiator_id", "regulatory_flag",
   "created_at"}

(* The columns that answers may ask for.                                   *)
AssetColumns ==
  AssetResponseFields \cup {"id", "created_at", "updated_at", "total_transfers"}
ValuationColumns ==
  {"id", "asset_id", "valuation_date", "nav", "nav_currency", "yield_to_maturity",
   "duration", "convexity", "credit_spread_bps", "pricing_source", "created_at",
   "updated_at"}
TransactionColumns ==
  {"id", "tx_ref", "fabric_tx_id", "fabric_block_number", "tx_type", "asset_id",
   "initiator_id", "from_owner_id", "to_owner_id", "amount", "price", "currency",
   "settlement_date", "endorsing_orgs", "justification", "regulatory_flag",
   "status", "created_at"}

(* The attributes that the helpers of the servicers read.                  *)
_asset_to_proto ==
  {"asset_id", "asset_type", "isin", "lei", "currency", "face_value", "owner",
   "status", "created_at", "updated_at"}
_valuation_to_proto ==
  {"id", "asset_id", "current_value", "yield_to_maturity", "duration", "convexity",
   "credit_spread_bps", "pricing_source", "valuation_date", "created_at"}
_tx_to_proto ==
  {"tx_ref", "fabric_tx_id", "tx_type", "amount", "currency", "initiator_id",
   "from_owner_id", "to_owner_id", "regulatory_flag", "status", "created_at"}

(* QueryAssets: the keys that search_assets puts in the selector, matched  *)
(* by CouchDB against the stored JSON, whose keys are not converted.       *)
Selector == {"status", "assetType", "owner"}

-----------------------------------------------------------------------------
(* The reads over rows, the same in the routers and the servicers.  Rows   *)
(* are in the order in which the query returns them.                       *)
Page(rows, limit, offset) ==
  SubSeq(rows, offset + 1, Min({offset + limit, Len(rows)}))

(* The high-risk records are paged; the draft SARs are cut at the limit    *)
(* and not moved by the offset.                                            *)
get_active_alerts(records, sars, limit, offset) ==
  LET high == SelectSeq(records, LAMBDA r : \/ r.risk \in {"ELEVE", "CRITIQUE"}
                                            \/ r.sanctioned \/ r.pep)
  IN  Page(high, limit, offset)
        \o Page(SelectSeq(sars, LAMBDA s : s.status = "DRAFT"), limit, 0)

list_transactions(txs, type, flag, limit, offset) ==
  Page(SelectSeq(txs, LAMBDA t : /\ type \in {"any", t.tx_type}
                                 /\ flag \in {"any", t.regulatory_flag}),
       limit, offset)

Total(rows, Val(_)) == FoldLeft(LAMBDA sum, row : sum + Val(row), 0, rows)

get_transaction_stats(txs) ==
  [total_transactions |-> Len(txs),
   volume_frozen |-> Total(txs, LAMBDA t : IF t.tx_type = "GEL" THEN t.amount ELSE 0)]

get_portfolio(assets, org) ==
  LET own(a) == a.issuer = org
  IN  [active_assets_count |->
         Total(assets, LAMBDA a : IF own(a) /\ a.status = "ACTIF" THEN 1 ELSE 0),
       total_assets_value |->
         Total(assets, LAMBDA a : IF own(a) /\ a.status # "REMBOURSE" THEN a.value ELSE 0)]

-----------------------------------------------------------------------------
(* The facts.  Every function of cli/api calls an endpoint that exists,    *)
(* with its method: kinds is the table of CliClient for that module.       *)
EndpointsExist(router, kinds) ==
  /\ DOMAIN router = DOMAIN kinds
  /\ \A f \in DOMAIN router : (kinds[f] = "write") <=> (router[f].method # "GET")

(* Eight commands never succeed, and four send fields that change nothing. *)
CommandsFit ==
  /\ Rejected(assetsRouter, assetsCommands) = {"valuate"}
  /\ Rejected(complianceRouter, complianceCommands) =
       {"kyc_submit", "kyc_approve", "screening_run"}
  /\ Rejected(tribunalRouter, tribunalCommands) = {"vote_commit", "vote_reveal"}
  /\ Rejected(zkpRouter, zkpCommands) = {"setup_key", "verify"}
  /\ Rejected(auditRouter, auditCommands) = {}
  /\ Rejected(agentRouter, agentCommands) = {}
  /\ Rejected(organizationsRouter, organizationsCommands) = {}
  /\ Rejected(transactionsRouter, transactionsCommands) = {}
  /\ Rejected(accountRouter, accountCommands) = {}
  /\ PassedOver(auditRouter, auditCommands) = {"list_log", "fraud_scan"}
  /\ PassedOver(agentRouter, agentCommands) = {"search"}
  /\ PassedOver(transactionsRouter, transactionsCommands) = {"list_tx"}

(* All three --limit options admit values that the server refuses; REST    *)
(* and gRPC filter and page alike, but for the org_id of list_tx, which    *)
(* the router takes and does not use.                                      *)
PagesFit ==
  /\ LimitsRefused(assetsRouter, assetsCommands) = {"list_assets"}
  /\ LimitsRefused(auditRouter, auditCommands) = {"list_log"}
  /\ LimitsRefused(transactionsRouter, transactionsCommands) = {"list_tx"}
  /\ Differ(assetsRouter, assetsReads) = {}
  /\ Differ(complianceRouter, complianceReads) = {}
  /\ Differ(auditRouter, auditServicer) = {}
  /\ Differ(agentRouter, agentReads) = {}
  /\ Differ(organizationsRouter, organizationsServicer) = {}
  /\ Differ(transactionsRouter, transactionsServicer) = {"list_tx"}

(* No write of the gRPC asset service builds its schema.                   *)
SchemasBuilt == Unbuilt(assetsServicer) = DOMAIN assetsServicer

(* Answers from rows are built, but for the asset and the valuation of     *)
(* gRPC; answers from the converted JSON of the chaincode are not: the     *)
(* conversion renames keys that ProvenanceRecord wants as they were, and   *)
(* an asset on the ledger has neither issuer_org_id nor current_owner_id.  *)
AnswersBuilt ==
  /\ AssetResponse \subseteq AssetColumns
  /\ ValuationResponse \subseteq ValuationColumns
  /\ TransactionResponse \subseteq TransactionColumns
  /\ _tx_to_proto \subseteq TransactionColumns
  /\ AssetResponse \ _convert_keys(AssetKeys) = {"issuer_org_id", "current_owner_id"}
  /\ ProvenanceRecord \ _convert_keys(ProvenanceKeys) = {"txID", "actorMSP", "actorDN"}
  /\ _asset_to_proto \ AssetResponseFields =
       {"lei", "face_value", "owner", "created_at", "updated_at"}
  /\ _valuation_to_proto \ ValuationColumns = {"current_value"}
  /\ Selector \ AssetKeys = {"owner"}

(* Walking through the alerts page by page shows every high-risk record    *)
(* once, the first `limit` drafts on every page, and no other draft.       *)
AlertPages(records, sars, limit) ==
  LET drafts == Page(SelectSeq(sars, LAMBDA s : s.status = "DRAFT"), limit, 0)
      high(n) == get_active_alerts(records, <<>>, limit, n * limit)
  IN /\ \A n \in 0..Len(records) :
          get_active_alerts(records, sars, limit, n * limit) = high(n) \o drafts
     /\ FoldLeft(LAMBDA all, i : all \o high(i - 1), <<>>, [i \in 1..(Len(records) + 1) |-> i])
          = get_active_alerts(records, <<>>, Len(records), 0)
     /\ Len(drafts) <= limit

(* The portfolios of all issuers add up to the assets of the table.        *)
PortfoliosAddUp(assets, orgs) ==
  LET sum(Val(_)) == MapThenSumSet(Val, orgs)
  IN  /\ sum(LAMBDA o : get_portfolio(assets, o).active_assets_count)
           = Len(SelectSeq(assets, LAMBDA a : a.status = "ACTIF"))
      /\ sum(LAMBDA o : get_portfolio(assets, o).total_assets_value)
           = Total(assets, LAMBDA a : IF a.status = "REMBOURSE" THEN 0 ELSE a.value)

(* The frozen volume of the statistics is the volume of the list of GEL.   *)
StatsMatchList(txs) ==
  get_transaction_stats(txs).volume_frozen
    = Total(list_transactions(txs, "GEL", "any", Len(txs), 0), LAMBDA t : t.amount)
=============================================================================
