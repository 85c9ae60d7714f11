SPECIFICATION Spec
CONSTANTS
  LIFE = 3
  RENEW_BEFORE_S = 2
  RENEW_MARGIN_S = 1
  TOKEN_LIFETIME_S = 4
  HORIZON = 4
  MaxPastes = 1
  MaxFaults = 3
  BACKOFF_S = 1
  BACKOFF_MAX_S = 2
  RENEW_RETRY_MAX_S = 2
  HEALTHY_S = 2
  MAX_REFUSALS = 2
  REFUSAL_WINDOW_S = 1
  MaxTrades = 1
INVARIANTS TypeOK RenewersApart SessionOnlyAdopts LapseTakesFaults TradeOnce
