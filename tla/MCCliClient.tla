---- MODULE MCCliClient ----
EXTENDS CliClient, TLC
CONSTANTS p1, p2
KindsOf(p) == IF p = p1 THEN {"write"} ELSE {"read", "get", "login", "logout", "refresh"}
Symmetry == Permutations(Tasks)

(* What the commands send against what the two front ends take and answer, *)
(* and the reads of both on every table of up to three rows.               *)
I == INSTANCE Interface
ASSUME EndpointsExist ==
  /\ I!EndpointsExist(I!assetsRouter, assetsApi)
  /\ I!EndpointsExist(I!complianceRouter, complianceApi)
  /\ I!EndpointsExist(I!auditRouter, auditApi)
  /\ I!EndpointsExist(I!agentRouter, agentApi)
  /\ I!EndpointsExist(I!organizationsRouter, organizationsApi)
  /\ I!EndpointsExist(I!transactionsRouter, transactionsApi)
  /\ I!EndpointsExist(I!tribunalRouter, tribunalApi)
  /\ I!EndpointsExist(I!zkpRouter, zkpApi)
  /\ I!EndpointsExist(I!accountRouter, accountApi)
ASSUME RequestsAndAnswers ==
  I!CommandsFit /\ I!PagesFit /\ I!SchemasBuilt /\ I!AnswersBuilt

Tables(Row) == UNION {[1..n -> Row] : n \in 0..3}
ComplianceRows ==
  {[risk |-> r, sanctioned |-> s, pep |-> FALSE] :
     r \in {"FAIBLE", "ELEVE"}, s \in BOOLEAN}
SarRows == {[status |-> s] : s \in {"DRAFT", "SUBMITTED"}}
AssetRows ==
  [issuer : {"o1", "o2"}, status : {"ACTIF", "GELE", "REMBOURSE"}, value : {1, 2}]
TxRows == [tx_type : {"GEL", "TRANSFERT"}, regulatory_flag : BOOLEAN, amount : {1, 2}]
ASSUME Reads ==
  /\ \A records \in Tables(ComplianceRows), sars \in Tables(SarRows), limit \in 1..3 :
       I!AlertPages(records, sars, limit)
  /\ \A assets \in Tables(AssetRows) : I!PortfoliosAddUp(assets, {"o1", "o2"})
  /\ \A txs \in Tables(TxRows) : I!StatsMatchList(txs)
====
