-------------------------- MODULE ProviderProfiles --------------------------
(***************************************************************************)
(* How each provider of allauth/socialaccount/providers reads in a profile *)
(* who somebody is and which address is theirs.  A definition is named     *)
(* after the class of the provider.py that it stands for, and says what    *)
(* its extract_uid(), extract_common_fields() and                          *)
(* extract_email_addresses() do.  Left out: the names, pictures and other  *)
(* fields of a profile.                                                    *)
(***************************************************************************)

(* uid:      "key"      the profile's own key, str(data["id"]) or as it is *)
(*           "get"      data.get("id"), nothing if there is none           *)
(*           "text"     str(data.get("id")), the text None if there is none*)
(*           "checked"  ProviderException if there is none                 *)
(*           "hash"     Python's hash of the address                       *)
(* by:       what the uid is at the provider: an "id", a "name" that may   *)
(*           go to somebody else, or the "time" that an account was made   *)
(* email:    "none", a "field" that may be missing, one that "must" be     *)
(*           there, or one that is taken if it is "confirmed"              *)
(* verified: whether the address counts as verified: "no", "always", as    *)
(*           the profile's "claim" says, or as a "text" says that may be   *)
(*           the text false                                                *)
Person(uid, by, email, verified) ==
    [uid |-> uid, by |-> by, email |-> email, verified |-> verified]
----------------------------------------------------------------------------

AgaveProvider == Person("text", "time", "field", "no")
AmazonProvider == Person("key", "id", "field", "no")
AmazonCognitoProvider == Person("key", "id", "field", "text")
AppleProvider == Person("key", "id", "field", "text")
AsanaProvider == Person("key", "id", "field", "no")
AtlassianProvider == Person("key", "id", "field", "claim")
Auth0Provider == Person("key", "id", "field", "no")
AuthentiqProvider == Person("key", "id", "field", "claim")
BaiduProvider == Person("key", "id", "none", "no")
BasecampProvider == Person("key", "id", "field", "no")
BattleNetProvider == Person("key", "id", "none", "no")
BitbucketOAuth2Provider == Person("key", "name", "field", "no")
BitlyProvider == Person("key", "name", "none", "no")
BoxOAuth2Provider == Person("key", "id", "field", "no")
CILogonProvider == Person("text", "id", "field", "claim")
CleverProvider == Person("key", "id", "field", "no")
CoinbaseProvider == Person("key", "id", "must", "no")
DataportenProvider == Person("key", "id", "field", "no")
DaumProvider == Person("text", "id", "none", "no")
DigitalOceanProvider == Person("key", "id", "must", "no")
DingTalkProvider == Person("key", "id", "none", "no")
DiscogsProvider == Person("key", "id", "none", "no")
DiscordProvider == Person("key", "id", "field", "claim")
DisqusProvider == Person("key", "id", "field", "always")
DoubanProvider == Person("key", "id", "none", "no")
DoximityProvider == Person("key", "id", "field", "no")
DraugiemProvider == Person("key", "id", "none", "no")
DripProvider == Person("hash", "id", "field", "always")
DropboxOAuth2Provider == Person("key", "id", "must", "no")
DummyProvider == Person("key", "id", "field", "claim")
DwollaProvider == Person("text", "id", "none", "no")
EdmodoProvider == Person("key", "id", "field", "no")
EdxProvider == Person("key", "name", "field", "no")
EventbriteProvider == Person("key", "id", "field", "claim")
EveOnlineProvider == Person("key", "id", "none", "no")
EvernoteProvider == Person("key", "id", "none", "no")
ExistProvider == Person("get", "name", "none", "no")
FacebookProvider == Person("key", "id", "field", "no")
FeedlyProvider == Person("key", "id", "field", "no")
FeishuProvider == Person("key", "id", "none", "no")
FigmaProvider == Person("key", "id", "field", "no")
FiveHundredPxProvider == Person("key", "id", "field", "no")
FlickrProvider == Person("key", "id", "field", "no")
FoursquareProvider == Person("key", "id", "field", "no")
FrontierProvider == Person("key", "id", "field", "always")
FirefoxAccountsProvider == Person("key", "id", "field", "no")
GiteaProvider == Person("key", "id", "field", "no")
GitHubProvider == Person("key", "id", "field", "claim")
GitLabProvider == Person("key", "id", "field", "no")
GlobusProvider == Person("checked", "id", "field", "no")
GoogleProvider == Person("key", "id", "field", "claim")
GumroadProvider == Person("key", "id", "field", "no")
HubicProvider == Person("key", "name", "field", "no")
HubspotProvider == Person("key", "id", "field", "always")
InstagramProvider == Person("key", "id", "none", "no")
JupyterHubProvider == Person("text", "name", "none", "no")
KakaoProvider == Person("key", "id", "field", "claim")
KlaviyoProvider == Person("key", "id", "field", "no")
LemonLDAPProvider == Person("key", "id", "field", "no")
LichessProvider == Person("key", "id", "field", "no")
LineProvider == Person("text", "id", "field", "no")
LinkedInOAuth2Provider == Person("checked", "id", "field", "no")
MailChimpProvider == Person("key", "id", "none", "no")
MailcowProvider == Person("key", "id", "must", "no")
MailRuProvider == Person("key", "id", "field", "no")
MediaWikiProvider == Person("key", "id", "confirmed", "claim")
MeetupProvider == Person("key", "id", "field", "no")
MicrosoftGraphProvider == Person("key", "id", "field", "no")
MiroProvider == Person("key", "id", "field", "claim")
NaverProvider == Person("key", "id", "field", "always")
NetIQProvider == Person("key", "id", "must", "no")
NextCloudProvider == Person("key", "id", "field", "no")
NotionProvider == Person("key", "id", "must", "no")
OdnoklassnikiProvider == Person("key", "id", "field", "no")
OktaProvider == Person("key", "id", "must", "claim")
OpenIDProvider == Person("key", "id", "field", "no")
OpenIDConnectProvider == Person("key", "id", "field", "claim")
OpenStreetMapProvider == Person("key", "id", "none", "no")
OrcidProvider == Person("get", "id", "field", "no")
PatreonProvider == Person("get", "id", "field", "no")
PaypalProvider == Person("key", "id", "field", "no")
PinterestProvider == Person("key", "id", "none", "no")
PocketProvider == Person("key", "name", "must", "always")
QuestradeProvider == Person("key", "id", "none", "no")
QuickBooksOAuth2Provider == Person("checked", "id", "field", "no")
RedditProvider == Person("key", "name", "none", "no")
RobinhoodProvider == Person("key", "id", "none", "no")
SalesforceProvider == Person("key", "id", "field", "claim")
SAMLProvider == Person("key", "id", "field", "text")
ShareFileProvider == Person("get", "id", "field", "no")
ShopifyProvider == Person("key", "id", "must", "claim")
SlackProvider == Person("key", "id", "field", "claim")
SnapchatProvider == Person("text", "id", "none", "no")
SoundCloudProvider == Person("key", "id", "field", "no")
SpotifyOAuth2Provider == Person("key", "id", "field", "no")
StackExchangeProvider == Person("key", "id", "none", "no")
SteamOpenIDProvider == Person("key", "id", "none", "no")
StocktwitsProvider == Person("key", "id", "none", "no")
StravaProvider == Person("key", "id", "field", "no")
StripeProvider == Person("key", "id", "field", "no")
TelegramProvider == Person("key", "id", "none", "no")
TikTokProvider == Person("key", "id", "none", "no")
TrainingPeaksProvider == Person("key", "id", "field", "no")
TrelloProvider == Person("key", "id", "field", "no")
TumblrProvider == Person("key", "name", "none", "no")
TumblrOAuth2Provider == Person("key", "name", "none", "no")
TwentyThreeAndMeProvider == Person("key", "id", "field", "no")
TwitchProvider == Person("key", "id", "field", "no")
TwitterProvider == Person("key", "id", "field", "no")
TwitterOAuth2Provider == Person("key", "id", "none", "no")
UntappdProvider == Person("key", "id", "must", "always")
VimeoProvider == Person("key", "id", "none", "no")
VimeoOAuth2Provider == Person("key", "id", "none", "no")
VKProvider == Person("key", "id", "field", "no")
WahooProvider == Person("key", "id", "field", "no")
WeiboProvider == Person("checked", "id", "none", "no")
WeixinProvider == Person("key", "id", "none", "no")
WindowsLiveProvider == Person("key", "id", "field", "no")
XingProvider == Person("key", "id", "field", "no")
YahooProvider == Person("key", "id", "must", "claim")
YandexProvider == Person("key", "id", "field", "always")
YNABProvider == Person("key", "id", "none", "no")
ZohoProvider == Person("key", "id", "must", "no")
ZoomProvider == Person("key", "id", "must", "claim")
=============================================================================
