SPECIFICATION Spec
CONSTANTS
    DefaultRequestTokensEstimate = 1000
    RawConfigs <- MCPaddedConfigs
    QuotaInfos <- MCQuotaInfos
    Levels <- MCLevels
    UsagePer <- MCUsagePer
    Families <- MCFamilies
    MaxChanges = 1
    MaxFaults = 1
INVARIANT
    AllowanceIsOrgQuota
