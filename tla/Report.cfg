SPECIFICATION Spec
CONSTANTS
  HISTORY_START = 1
  LastDay = 2
  Volume <- MCVolume
  Campaigns <- MCCampaigns
  OrganicMix <- MCOrganicMix
  Systems <- MCSystems
  HOME_PAGE = "/"
  PAGE_CONTACT = "/contact"
  ABOUT_PAGE = "/a-propos"
  EXPERTISE_PAGES <- MCExpertises
  CASE_STUDY_PAGES <- MCCases
  BLOG_PAGES <- MCBlog
  JOB_PAGES <- MCJobs
  EXPERTISE_INDEX = "/expertises"
  CASE_STUDY_INDEX = "/realisations"
  BLOG_INDEX = "/blog"
  JOB_INDEX = "/offres-emploi"
  MaxFollowups = 2
  MaxVariety = 2
  Sunday0 = 3
  MonthOf <- MCMonthOf
  Scale = 60
  MAX_LIMIT = 20
  MAX_DIMENSIONS = 9
  MAX_METRICS = 10
  MAX_RANGES = 4
  DEFAULT_LIMIT = 10
  DATE_MIN <- MCDateMin
  DATE_MAX = 6
  FIRST_DATE <- MCFirstDate
  Today = 2
  DAYS_PER_TOKEN = 4
  FREE_CELLS = 3
  CELLS_PER_TOKEN = 8
  Remaining = 3
  Text <- MCText
  Folded <- MCFolded
  Bodies <- MCBodies
  Common <- MCCommon
INVARIANTS TypeOK NobodyUnborn RowsDeduplicate FunnelHolds TotalsBracketed ExtremesReached OrderIsLexicographic PagesPartition SpineGapFree FilterIsSetAlgebra PaidIsServed
